---- MODULE Spec2Model ----
(***************************************************************************)
(* A model of the search-and-deduction core of Marabou:                    *)
(*   - SmtCore (the decision stack), src/src/engine/main.cpp               *)
(*   - the CVC4 context, the BoundManager and the engine facade that       *)
(*     SmtCore drives (their code is not part of the sources at hand; they *)
(*     are modelled from the specification and from Test_BoundManager.h)   *)
(*                                                                         *)
(* Reals are modelled on an integer grid.  FloatUtils::gt / lt compare     *)
(* with the tolerance Epsilon, so two grid neighbours are "equal".         *)
(***************************************************************************)
EXTENDS Integers, Sequences, FiniteSets, TLC

\* ------------------------------------------------------------------ bounds
MaxVal == 2
MaxStateId == 2
MaxCount == 2
MaxLevel == 2
MaxLog == 2
MaxImplied == 2
MaxVariables == 3

\* --------------------------------------------------------------- constants
Epsilon == 1
CoefficientOne == 4
MinimalCoefficientForTightening == 2
RoundingConstant == 4
SaturationIterations == 3
ConstraintViolationThreshold == 2
DeepSoIRejectionThreshold == 2

Vars == {0, 1}
Vals == (0 - MaxVal) .. MaxVal
\* Bound values are extended reals: the two infinities and the IEEE
\* not-a-number that inf - inf produces are kept apart from the finite values.
PosInf == 1000 + MaxVal
NegInf == 0 - PosInf
NaN == 2 * PosInf
Constraints == {1, 2}
NULL == 0

LB == "LB"
UB == "UB"
Tightening(v, x, t) == [variable |-> v, value |-> x, type |-> t]

\* PiecewiseLinearConstraint::getCaseSplits: constraint 1 is a rectifier-like
\* constraint with the two cases {x0 >= 0}, {x0 <= 0}; constraint 2 is a
\* disjunction with three cases.
CaseSplitsOf(c) ==
    IF c = 1
    THEN << <<Tightening(0, 0, LB)>>, <<Tightening(0, 0, UB)>> >>
    ELSE << <<Tightening(1, 2, LB)>>,
            <<Tightening(1, 0, UB), Tightening(0, 0 - 2, UB)>>,
            <<Tightening(1, 0 - 2, UB)>> >>

AllCases == UNION { { CaseSplitsOf(c)[k] : k \in 1..Len(CaseSplitsOf(c)) } : c \in Constraints }

\* The inputs the operations are tried on: bounds the tightener derives
\* between two operations of the decision stack, splits reported as implied
\* by a caller, and what the caller's out-list holds on entry.
TightenInputs ==
    { Tightening(0, 1, LB), Tightening(1, 1, UB) }
ImpliedInputs == { <<Tightening(0, 2, UB)>> }
OutInputs == { << >>, << <<Tightening(0, 2, UB)>> >> }
\* The bounds the bound manager is handed when it is exercised on its own.
BMInputs ==
    { Tightening(0, 0, LB), Tightening(0, 1, LB), Tightening(0, 0, UB),
      Tightening(1, 2, LB), Tightening(1, 0, UB) }

VARIABLES
    stack,                      \* SmtCore::_stack
    impliedValidSplitsAtRoot,   \* SmtCore::_impliedValidSplitsAtRoot
    needToSplit,                \* SmtCore::_needToSplit
    constraintForSplitting,     \* SmtCore::_constraintForSplitting (NULL = 0)
    stateId,                    \* SmtCore::_stateId
    constraintToViolationCount, \* SmtCore::_constraintToViolationCount
    numRejectedPhasePatternProposal,
    context,                    \* the scopes of the CVC4 context, one per push
    lowerBounds, upperBounds,   \* BoundManager: the local bound arrays
    storedLower, storedUpper,   \* BoundManager: context-dependent checkpoint
    consistentBounds,           \* BoundManager: context-dependent flag
    inconsistentVariable,       \* BoundManager: first crossing variable
    tightenings,                \* BoundManager: log of accepted changes
    active,                     \* PiecewiseLinearConstraint::isActive
    calls,                      \* the engine / context calls of the last operation
    result,                     \* the out-parameter of allSplitsSoFar
    drained,                    \* the out-parameter of getTightenings
    pushed,                     \* per open context level, the bounds at its push
    popped,                     \* the entry of pushed closed by the last pop
    last,                       \* the last operation and what it returned
    _tableau,                   \* RowBoundTightener::_tableau
    unsatCertificate,           \* Engine: the certificate tree and its current pointer
    explanations,               \* BoundManager: the explanation of each bound (none: no explainer)
    _debuggingSolution,         \* SmtCore::_debuggingSolution (empty: none stored)
    error,                      \* the MarabouError the last operation threw (NoError: none)
    smtState                    \* the SmtState storeSmtState fills

vars == << stack, impliedValidSplitsAtRoot, needToSplit, constraintForSplitting,
           stateId, constraintToViolationCount, numRejectedPhasePatternProposal,
           context, lowerBounds, upperBounds, storedLower, storedUpper,
           consistentBounds, inconsistentVariable, tightenings, active,
           calls, result, drained, pushed, popped, last, _tableau,
           unsatCertificate, explanations, _debuggingSolution, error,
           smtState >>

\* The program state as one record, so that the operations below are
\* functions from state to state, composed as the code composes its calls.
State ==
    [ stack |-> stack,
      impliedValidSplitsAtRoot |-> impliedValidSplitsAtRoot,
      needToSplit |-> needToSplit,
      constraintForSplitting |-> constraintForSplitting,
      stateId |-> stateId,
      constraintToViolationCount |-> constraintToViolationCount,
      numRejectedPhasePatternProposal |-> numRejectedPhasePatternProposal,
      context |-> context,
      lowerBounds |-> lowerBounds, upperBounds |-> upperBounds,
      storedLower |-> storedLower, storedUpper |-> storedUpper,
      consistentBounds |-> consistentBounds,
      inconsistentVariable |-> inconsistentVariable,
      tightenings |-> tightenings,
      active |-> active,
      calls |-> calls,
      _tableau |-> _tableau,
      unsatCertificate |-> unsatCertificate,
      explanations |-> explanations,
      _debuggingSolution |-> _debuggingSolution,
      error |-> error,
      smtState |-> smtState ]

Install(s) ==
    /\ stack' = s.stack
    /\ impliedValidSplitsAtRoot' = s.impliedValidSplitsAtRoot
    /\ needToSplit' = s.needToSplit
    /\ constraintForSplitting' = s.constraintForSplitting
    /\ stateId' = s.stateId
    /\ constraintToViolationCount' = s.constraintToViolationCount
    /\ numRejectedPhasePatternProposal' = s.numRejectedPhasePatternProposal
    /\ context' = s.context
    /\ lowerBounds' = s.lowerBounds
    /\ upperBounds' = s.upperBounds
    /\ storedLower' = s.storedLower
    /\ storedUpper' = s.storedUpper
    /\ consistentBounds' = s.consistentBounds
    /\ inconsistentVariable' = s.inconsistentVariable
    /\ tightenings' = s.tightenings
    /\ active' = s.active
    /\ calls' = s.calls
    /\ _tableau' = s._tableau
    /\ unsatCertificate' = s.unsatCertificate
    /\ explanations' = s.explanations
    /\ _debuggingSolution' = s._debuggingSolution
    /\ error' = s.error
    /\ smtState' = s.smtState

Call(s, c) == [s EXCEPT !.calls = Append(@, c)]

\* no exception has left the operation
NoError == "none"

Begin(s) == [s EXCEPT !.calls = << >>, !.error = NoError]

\* throw MarabouError( MarabouError::DEBUGGING_ERROR )
DEBUGGING_ERROR == "DEBUGGING_ERROR"
Throw(s, e) == [s EXCEPT !.error = e]

\* an empty Map<unsigned, double>
NoSolution == << >>

\* a default-constructed SmtState
NoSmtState == [impliedValidSplitsAtRoot |-> << >>, stack |-> << >>, stateId |-> 0]

\* ------------------------------------------------------------- FloatUtils
\* Every comparison with a NaN is false.
FloatGt(x, y) == x # NaN /\ y # NaN /\ x > y + Epsilon
FloatLt(x, y) == x # NaN /\ y # NaN /\ x < y - Epsilon

\* IEEE arithmetic on the extended reals.
IsInfinite(x) == x = PosInf \/ x = NegInf

FloatNeg(x) ==
    IF x = NaN THEN NaN
    ELSE IF x = PosInf THEN NegInf
    ELSE IF x = NegInf THEN PosInf
    ELSE 0 - x

FloatAdd(x, y) ==
    IF x = NaN \/ y = NaN THEN NaN
    ELSE IF IsInfinite(x) THEN (IF y = FloatNeg(x) THEN NaN ELSE x)
    ELSE IF IsInfinite(y) THEN y
    ELSE x + y

FloatSub(x, y) == FloatAdd(x, FloatNeg(y))

\* Coefficients are kept in units of 1 / CoefficientOne, on a grid whose step
\* is far above the comparison tolerance, so that FloatUtils::isZero,
\* isPositive and lt on coefficients are the exact comparisons.
Quotient(a, b) == IF b > 0 THEN a \div b ELSE (0 - a) \div (0 - b)

Abs(c) == IF c < 0 THEN 0 - c ELSE c

\* ci * value
FloatTimes(ci, x) ==
    IF x = NaN THEN NaN
    ELSE IF IsInfinite(x)
         THEN (IF ci = 0 THEN NaN ELSE IF ci > 0 THEN x ELSE FloatNeg(x))
    ELSE Quotient(ci * x, CoefficientOne)

\* value / ci  (ci is not zero)
FloatDiv(x, ci) ==
    IF x = NaN THEN NaN
    ELSE IF IsInfinite(x) THEN (IF ci > 0 THEN x ELSE FloatNeg(x))
    ELSE Quotient(x * CoefficientOne, ci)

\* ----------------------------------------------------------- BoundManager
\* (an acceptance test that lets an equal value through)
BMSetLowerBound_AcceptEqual(s, v, x) ==
    IF x >= s.lowerBounds[v]
    THEN LET s1 == [s EXCEPT !.lowerBounds[v] = x,
                             !.tightenings = Append(@, Tightening(v, x, LB))]
         IN  IF x > s1.upperBounds[v] /\ s1.consistentBounds
             THEN [s1 EXCEPT !.consistentBounds = FALSE, !.inconsistentVariable = v]
             ELSE s1
    ELSE s

BMSetLowerBound(s, v, x) ==
    IF FloatGt(x, s.lowerBounds[v])
    THEN LET s1 == [s EXCEPT !.lowerBounds[v] = x,
                             !.tightenings = Append(@, Tightening(v, x, LB))]
         IN  IF x > s1.upperBounds[v] /\ s1.consistentBounds
             THEN [s1 EXCEPT !.consistentBounds = FALSE, !.inconsistentVariable = v]
             ELSE s1
    ELSE s

\* (a crossing that overwrites the variable recorded first)
BMSetUpperBound_Overwrite(s, v, x) ==
    IF FloatLt(x, s.upperBounds[v])
    THEN LET s1 == [s EXCEPT !.upperBounds[v] = x,
                             !.tightenings = Append(@, Tightening(v, x, UB))]
         IN  IF s1.lowerBounds[v] > x
             THEN [s1 EXCEPT !.consistentBounds = FALSE, !.inconsistentVariable = v]
             ELSE s1
    ELSE s

\* (a crossing that goes unnoticed)
BMSetUpperBound_NoFlag(s, v, x) ==
    IF FloatLt(x, s.upperBounds[v])
    THEN [s EXCEPT !.upperBounds[v] = x,
                   !.tightenings = Append(@, Tightening(v, x, UB))]
    ELSE s

BMSetUpperBound(s, v, x) ==
    IF FloatLt(x, s.upperBounds[v])
    THEN LET s1 == [s EXCEPT !.upperBounds[v] = x,
                             !.tightenings = Append(@, Tightening(v, x, UB))]
         IN  IF s1.lowerBounds[v] > x /\ s1.consistentBounds
             THEN [s1 EXCEPT !.consistentBounds = FALSE, !.inconsistentVariable = v]
             ELSE s1
    ELSE s

\* consistentBounds( variable )
BMConsistentBoundsOf(s, v) == s.lowerBounds[v] <= s.upperBounds[v]

\* (a drain that leaves the log in place)
BMDrainTightenings_KeepLog(s) == [s |-> s, out |-> s.tightenings]

\* getTightenings( out ): the log is moved out.
BMDrainTightenings(s) == [s |-> [s EXCEPT !.tightenings = << >>], out |-> s.tightenings]

\* getNumberOfVariables()
BMGetNumberOfVariables(s) == Cardinality(DOMAIN s.lowerBounds)

\* (a registration that resets the bounds of the variables already there)
BMRegisterNewVariable_Reset(s) ==
    LET n == BMGetNumberOfVariables(s)
    IN  [s EXCEPT !.lowerBounds = [v \in 0..n |-> NegInf],
                  !.upperBounds = [v \in 0..n |-> PosInf],
                  !.storedLower = [v \in 0..n |-> NegInf],
                  !.storedUpper = [v \in 0..n |-> PosInf]]

\* registerNewVariable(): the arrays grow by one entry, (-inf, +inf); the
\* new variable's index is the old size.
BMRegisterNewVariable(s) ==
    LET n == BMGetNumberOfVariables(s)
        grow(a, x) == [v \in 0..n |-> IF v < n THEN a[v] ELSE x]
    IN  [s EXCEPT !.lowerBounds = grow(@, NegInf),
                  !.upperBounds = grow(@, PosInf),
                  !.storedLower = grow(@, NegInf),
                  !.storedUpper = grow(@, PosInf)]

\* initialize( numberOfVariables )
RECURSIVE BMRegisterTimes(_, _)
BMRegisterTimes(s, k) ==
    IF k = 0 THEN s ELSE BMRegisterTimes(BMRegisterNewVariable(s), k - 1)

BMInitialize(s, numberOfVariables) ==
    BMRegisterTimes([s EXCEPT !.lowerBounds = << >>, !.upperBounds = << >>,
                              !.storedLower = << >>, !.storedUpper = << >>,
                              !.consistentBounds = TRUE],
                    numberOfVariables)

BMStoreLocalBounds(s) ==
    [s EXCEPT !.storedLower = s.lowerBounds, !.storedUpper = s.upperBounds]

BMRestoreLocalBounds(s) ==
    [s EXCEPT !.lowerBounds = s.storedLower, !.upperBounds = s.storedUpper]

\* The explanations: for each variable and kind of bound a sparse vector
\* over the rows, trivial when it is empty; context-dependent like the
\* checkpoint of the bounds.
Trivial == << >>

\* no explainer has been initialised: there is no explanation at all
NoExplainer == << >>

HasExplainer(s) == DOMAIN s.explanations # {}

\* initializeBoundExplainer( numberOfVariables, numberOfRows )
BMInitializeBoundExplainer(s) ==
    [s EXCEPT !.explanations = [p \in (DOMAIN s.lowerBounds) \X {LB, UB} |-> Trivial]]

BMSetExplanation(s, explanation, variable, kind) ==
    [s EXCEPT !.explanations[<< variable, kind >>] = explanation]

BMGetExplanation(s, variable, kind) == s.explanations[<< variable, kind >>]

\* (a reset that makes every explanation trivial)
BMResetExplanation_All(s, variable, kind) ==
    [s EXCEPT !.explanations = [p \in DOMAIN @ |-> Trivial]]

BMResetExplanation(s, variable, kind) ==
    [s EXCEPT !.explanations[<< variable, kind >>] = Trivial]

BMIsExplanationTrivial(s, variable, kind) ==
    BMGetExplanation(s, variable, kind) = Trivial

\* ------------------------------------------------------ RowBoundTightener
\* The tableau is what ITableau hands out: n, m, the sparse rows of A, the
\* right-hand side b, the basis (basic / nonBasic variables, inverse of the
\* basis matrix) and the pivot row.  A sparse row is a sequence of
\* [index, value] entries; a tableau row is [lhs, scalar, row], row being a
\* sequence of [var, coefficient] entries.
ZERO == "ZERO"
POSITIVE == "POSITIVE"
NEGATIVE == "NEGATIVE"

\* registerTighterLowerBound / registerTighterUpperBound: the bound goes to
\* the bound manager; 1 is returned if it was accepted.
RegisterTighterLowerBound(s, variable, newLowerBound) ==
    LET Registered(s1) ==
            [s |-> s1, n |-> IF s1.tightenings # s.tightenings THEN 1 ELSE 0]
    IN  Registered(BMSetLowerBound(s, variable, newLowerBound))

RegisterTighterUpperBound(s, variable, newUpperBound) ==
    LET Registered(s1) ==
            [s |-> s1, n |-> IF s1.tightenings # s.tightenings THEN 1 ELSE 0]
    IN  Registered(BMSetUpperBound(s, variable, newUpperBound))

\* The outcome of a tightening call: the state it leaves, the number of
\* bounds learned, whether InfeasibleQueryException left it, and the rows it
\* went through.
Outcome(s, newBounds, thrown, rows) ==
    [s |-> s, result |-> newBounds, thrown |-> thrown, rows |-> rows]

\* tightenOnSingleConstraintRow, lines 468-480: ci * lb, ci * ub and the sign
\* flags of all entries, from the bounds on entry to the row.
ConstraintRowScratch(s, n, sparseRow) ==
    LET entryOf(i) == CHOOSE k \in DOMAIN sparseRow : sparseRow[k].index = i
        has(i) == \E k \in DOMAIN sparseRow : sparseRow[k].index = i
    IN  [ ciSign |-> [i \in 0..(n - 1) |->
                        IF ~has(i) THEN ZERO
                        ELSE IF sparseRow[entryOf(i)].value > 0 THEN POSITIVE
                        ELSE NEGATIVE],
          ciTimesLb |-> [i \in 0..(n - 1) |->
                        IF ~has(i) THEN 0
                        ELSE FloatTimes(sparseRow[entryOf(i)].value, s.lowerBounds[i])],
          ciTimesUb |-> [i \in 0..(n - 1) |->
                        IF ~has(i) THEN 0
                        ELSE FloatTimes(sparseRow[entryOf(i)].value, s.upperBounds[i])] ]

\* lines 499-515: the bounds of  b - sum ci xi  over ALL entries.
\* (one that leaves out the entries with an infinite term)
RECURSIVE ConstraintRowAux_SkipsUnbounded(_, _, _, _)
ConstraintRowAux_SkipsUnbounded(sc, i, n, aux) ==
    IF i = n THEN aux
    ELSE ConstraintRowAux_SkipsUnbounded(sc, i + 1, n,
            IF IsInfinite(sc.ciTimesLb[i]) \/ IsInfinite(sc.ciTimesUb[i]) THEN aux
            ELSE IF sc.ciSign[i] = NEGATIVE
            THEN [lb |-> FloatSub(aux.lb, sc.ciTimesLb[i]),
                  ub |-> FloatSub(aux.ub, sc.ciTimesUb[i])]
            ELSE [lb |-> FloatSub(aux.lb, sc.ciTimesUb[i]),
                  ub |-> FloatSub(aux.ub, sc.ciTimesLb[i])])

RECURSIVE ConstraintRowAux(_, _, _, _)
ConstraintRowAux(sc, i, n, aux) ==
    IF i = n THEN aux
    ELSE ConstraintRowAux(sc, i + 1, n,
            IF sc.ciSign[i] = NEGATIVE
            THEN [lb |-> FloatSub(aux.lb, sc.ciTimesLb[i]),
                  ub |-> FloatSub(aux.ub, sc.ciTimesUb[i])]
            ELSE [lb |-> FloatSub(aux.lb, sc.ciTimesUb[i]),
                  ub |-> FloatSub(aux.ub, sc.ciTimesLb[i])])

\* line 542: an entry with a small coefficient is passed over.
\* (one that passes over no entry)
SmallCoefficient_Never(ci) == FALSE

SmallCoefficient(ci) == Abs(ci) < MinimalCoefficientForTightening

\* lines 525-553: the bounds proposed for the variable of one entry.
\* (one that forgets to swap the bounds for a negative coefficient)
ConstraintEntryBounds_NoSwap(sc, aux, entry) ==
    LET index == entry.index
        lowerBound == IF sc.ciSign[index] = NEGATIVE
                      THEN FloatAdd(aux.lb, sc.ciTimesLb[index])
                      ELSE FloatAdd(aux.lb, sc.ciTimesUb[index])
        upperBound == IF sc.ciSign[index] = NEGATIVE
                      THEN FloatAdd(aux.ub, sc.ciTimesUb[index])
                      ELSE FloatAdd(aux.ub, sc.ciTimesLb[index])
    IN  [lb |-> FloatDiv(lowerBound, entry.value), ub |-> FloatDiv(upperBound, entry.value)]

ConstraintEntryBounds(sc, aux, entry) ==
    LET index == entry.index
        lowerBound == IF sc.ciSign[index] = NEGATIVE
                      THEN FloatAdd(aux.lb, sc.ciTimesLb[index])
                      ELSE FloatAdd(aux.lb, sc.ciTimesUb[index])
        upperBound == IF sc.ciSign[index] = NEGATIVE
                      THEN FloatAdd(aux.ub, sc.ciTimesUb[index])
                      ELSE FloatAdd(aux.ub, sc.ciTimesLb[index])
        Swapped(lo, hi) == IF sc.ciSign[index] = NEGATIVE THEN [lb |-> hi, ub |-> lo]
                                                          ELSE [lb |-> lo, ub |-> hi]
    IN  Swapped(FloatDiv(lowerBound, entry.value), FloatDiv(upperBound, entry.value))

\* lines 521-561: the entries of the row in turn; the first crossing ends it.
\* (one that goes on after a crossing)
RECURSIVE ConstraintRowEntries_NoThrow(_, _, _, _, _, _)
ConstraintRowEntries_NoThrow(s, sparseRow, sc, aux, k, newBounds) ==
    IF k > Len(sparseRow) THEN Outcome(s, newBounds, FALSE, << >>)
    ELSE IF SmallCoefficient(sparseRow[k].value)
         THEN ConstraintRowEntries_NoThrow(s, sparseRow, sc, aux, k + 1, newBounds)
    ELSE LET index == sparseRow[k].index
             AfterUpper(r1, r2) ==
                 ConstraintRowEntries_NoThrow(r2.s, sparseRow, sc, aux, k + 1,
                                              newBounds + r1.n + r2.n)
             AfterLower(bounds, r1) ==
                 AfterUpper(r1, RegisterTighterUpperBound(r1.s, index, bounds.ub))
             WithBounds(bounds) ==
                 AfterLower(bounds, RegisterTighterLowerBound(s, index, bounds.lb))
         IN  WithBounds(ConstraintEntryBounds(sc, aux, sparseRow[k]))

RECURSIVE ConstraintRowEntries(_, _, _, _, _, _)
ConstraintRowEntries(s, sparseRow, sc, aux, k, newBounds) ==
    IF k > Len(sparseRow) THEN Outcome(s, newBounds, FALSE, << >>)
    ELSE IF SmallCoefficient(sparseRow[k].value)
         THEN ConstraintRowEntries(s, sparseRow, sc, aux, k + 1, newBounds)
    ELSE LET index == sparseRow[k].index
             AfterUpper(r1, r2) ==
                 IF FloatGt(r2.s.lowerBounds[index], r2.s.upperBounds[index])
                 THEN Outcome(r2.s, newBounds + r1.n + r2.n, TRUE, << >>)
                 ELSE ConstraintRowEntries(r2.s, sparseRow, sc, aux, k + 1,
                                           newBounds + r1.n + r2.n)
             AfterLower(bounds, r1) ==
                 AfterUpper(r1, RegisterTighterUpperBound(r1.s, index, bounds.ub))
             WithBounds(bounds) ==
                 AfterLower(bounds, RegisterTighterLowerBound(s, index, bounds.lb))
         IN  WithBounds(ConstraintEntryBounds(sc, aux, sparseRow[k]))

TightenOnSingleConstraintRow(s, tableau, row) ==
    LET sparseRow == tableau.A[row]
        WithScratch(sc) ==
            ConstraintRowEntries(s, sparseRow, sc,
                ConstraintRowAux(sc, 0, tableau.n,
                                 [lb |-> tableau.b[row], ub |-> tableau.b[row]]),
                1, 0)
    IN  WithScratch(ConstraintRowScratch(s, tableau.n, sparseRow))

\* onePassOverConstraintMatrix: the rows in index order.
\* (a pass that takes the rows from the last to the first)
RECURSIVE OnePassOverConstraintMatrixFrom_Reversed(_, _, _, _, _)
OnePassOverConstraintMatrixFrom_Reversed(s, tableau, i, newBounds, rows) ==
    IF i > tableau.m THEN Outcome(s, newBounds, FALSE, rows)
    ELSE LET AfterRow(r) ==
                 IF r.thrown
                 THEN Outcome(r.s, newBounds + r.result, TRUE,
                              Append(rows, tableau.m + 1 - i))
                 ELSE OnePassOverConstraintMatrixFrom_Reversed(r.s, tableau, i + 1,
                          newBounds + r.result, Append(rows, tableau.m + 1 - i))
         IN  AfterRow(TightenOnSingleConstraintRow(s, tableau, tableau.m + 1 - i))

RECURSIVE OnePassOverConstraintMatrixFrom(_, _, _, _, _)
OnePassOverConstraintMatrixFrom(s, tableau, i, newBounds, rows) ==
    IF i > tableau.m THEN Outcome(s, newBounds, FALSE, rows)
    ELSE LET AfterRow(r) ==
                 IF r.thrown
                 THEN Outcome(r.s, newBounds + r.result, TRUE, Append(rows, i))
                 ELSE OnePassOverConstraintMatrixFrom(r.s, tableau, i + 1,
                          newBounds + r.result, Append(rows, i))
         IN  AfterRow(TightenOnSingleConstraintRow(s, tableau, i))

\* (a pass that reports no bound learned)
OnePassOverConstraintMatrix_CountsNothing(s, tableau) ==
    [OnePassOverConstraintMatrixFrom(s, tableau, 1, 0, << >>) EXCEPT !.result = 0]

OnePassOverConstraintMatrix(s, tableau) ==
    OnePassOverConstraintMatrixFrom(s, tableau, 1, 0, << >>)

\* examineConstraintMatrix, lines 412-424: the do-while over the passes.
\* passes is the list of the numbers of bounds learned, one per pass.
\* (a loop that ignores the cap)
RECURSIVE ExamineConstraintMatrixLoop_NoCap(_, _, _, _, _)
ExamineConstraintMatrixLoop_NoCap(s, tableau, maxNumberOfIterations, passes, rows) ==
    LET AfterPass(r) ==
            IF r.thrown
            THEN [s |-> r.s, passes |-> Append(passes, r.result), thrown |-> TRUE,
                  rows |-> rows \o r.rows]
            ELSE IF r.result > 0
            THEN ExamineConstraintMatrixLoop_NoCap(r.s, tableau,
                     maxNumberOfIterations - 1, Append(passes, r.result),
                     rows \o r.rows)
            ELSE [s |-> r.s, passes |-> Append(passes, r.result), thrown |-> FALSE,
                  rows |-> rows \o r.rows]
    IN  AfterPass(OnePassOverConstraintMatrix(s, tableau))

RECURSIVE ExamineConstraintMatrixLoop(_, _, _, _, _)
ExamineConstraintMatrixLoop(s, tableau, maxNumberOfIterations, passes, rows) ==
    LET AfterPass(r) ==
            IF r.thrown
            THEN [s |-> r.s, passes |-> Append(passes, r.result), thrown |-> TRUE,
                  rows |-> rows \o r.rows]
            ELSE IF maxNumberOfIterations - 1 # 0 /\ r.result > 0
            THEN ExamineConstraintMatrixLoop(r.s, tableau, maxNumberOfIterations - 1,
                     Append(passes, r.result), rows \o r.rows)
            ELSE [s |-> r.s, passes |-> Append(passes, r.result), thrown |-> FALSE,
                  rows |-> rows \o r.rows]
    IN  AfterPass(OnePassOverConstraintMatrix(s, tableau))

ExamineConstraintMatrix(s, tableau, untilSaturation) ==
    ExamineConstraintMatrixLoop(s, tableau,
        IF untilSaturation THEN SaturationIterations ELSE 1, << >>, << >>)

\* tightenOnSingleInvertedBasisRow, lines 258-275: ci * lb, ci * ub and the
\* sign flags of the entries of  y = sum ci xi + b.
InvertedRowScratch(s, row) ==
    [ ciSign |-> [i \in DOMAIN row.row |->
                    IF row.row[i].coefficient = 0 THEN ZERO
                    ELSE IF row.row[i].coefficient > 0 THEN POSITIVE ELSE NEGATIVE],
      ciTimesLb |-> [i \in DOMAIN row.row |->
                    IF row.row[i].coefficient = 0 THEN 0
                    ELSE FloatTimes(row.row[i].coefficient, s.lowerBounds[row.row[i].var])],
      ciTimesUb |-> [i \in DOMAIN row.row |->
                    IF row.row[i].coefficient = 0 THEN 0
                    ELSE FloatTimes(row.row[i].coefficient, s.upperBounds[row.row[i].var])] ]

\* lines 279-297: the bounds of y, accumulated forward.
RECURSIVE InvertedRowLhsBounds(_, _, _)
InvertedRowLhsBounds(sc, i, acc) ==
    IF i > Len(sc.ciSign) THEN acc
    ELSE InvertedRowLhsBounds(sc, i + 1,
            IF sc.ciSign[i] = POSITIVE
            THEN [lb |-> FloatAdd(acc.lb, sc.ciTimesLb[i]),
                  ub |-> FloatAdd(acc.ub, sc.ciTimesUb[i])]
            ELSE [lb |-> FloatAdd(acc.lb, sc.ciTimesUb[i]),
                  ub |-> FloatAdd(acc.ub, sc.ciTimesLb[i])])

\* lines 329-345: the bounds of  y - sum ci xi - b  over ALL entries.
RECURSIVE InvertedRowAux(_, _, _)
InvertedRowAux(sc, i, aux) ==
    IF i > Len(sc.ciSign) THEN aux
    ELSE InvertedRowAux(sc, i + 1,
            IF sc.ciSign[i] = NEGATIVE
            THEN [lb |-> FloatSub(aux.lb, sc.ciTimesLb[i]),
                  ub |-> FloatSub(aux.ub, sc.ciTimesUb[i])]
            ELSE [lb |-> FloatSub(aux.lb, sc.ciTimesUb[i]),
                  ub |-> FloatSub(aux.ub, sc.ciTimesLb[i])])

\* lines 356-381: the bounds proposed for xi, before rounding.
InvertedEntryBounds(sc, aux, row, i) ==
    LET lowerBound == IF sc.ciSign[i] = NEGATIVE
                      THEN FloatAdd(aux.lb, sc.ciTimesLb[i])
                      ELSE FloatAdd(aux.lb, sc.ciTimesUb[i])
        upperBound == IF sc.ciSign[i] = NEGATIVE
                      THEN FloatAdd(aux.ub, sc.ciTimesUb[i])
                      ELSE FloatAdd(aux.ub, sc.ciTimesLb[i])
        Swapped(lo, hi) == IF sc.ciSign[i] = NEGATIVE THEN [lb |-> hi, ub |-> lo]
                                                      ELSE [lb |-> lo, ub |-> hi]
    IN  Swapped(FloatDiv(lowerBound, row.row[i].coefficient),
                FloatDiv(upperBound, row.row[i].coefficient))

\* lines 348-399: the right-hand-side variables in turn.
\* (one that registers the bounds as derived, without the rounding constant)
RECURSIVE InvertedRowEntries_NoRounding(_, _, _, _, _, _)
InvertedRowEntries_NoRounding(s, row, sc, aux, i, newBounds) ==
    IF i > Len(row.row) THEN Outcome(s, newBounds, FALSE, << >>)
    ELSE IF sc.ciSign[i] = ZERO \/ SmallCoefficient(row.row[i].coefficient)
         THEN InvertedRowEntries_NoRounding(s, row, sc, aux, i + 1, newBounds)
    ELSE LET xi == row.row[i].var
             AfterUpper(r1, r2) ==
                 IF FloatGt(r2.s.lowerBounds[xi], r2.s.upperBounds[xi])
                 THEN Outcome(r2.s, newBounds + r1.n + r2.n, TRUE, << >>)
                 ELSE InvertedRowEntries_NoRounding(r2.s, row, sc, aux, i + 1,
                                                    newBounds + r1.n + r2.n)
             AfterLower(bounds, r1) ==
                 AfterUpper(r1, RegisterTighterUpperBound(r1.s, xi, bounds.ub))
             WithBounds(bounds) ==
                 AfterLower(bounds, RegisterTighterLowerBound(s, xi, bounds.lb))
         IN  WithBounds(InvertedEntryBounds(sc, aux, row, i))

RECURSIVE InvertedRowEntries(_, _, _, _, _, _)
InvertedRowEntries(s, row, sc, aux, i, newBounds) ==
    IF i > Len(row.row) THEN Outcome(s, newBounds, FALSE, << >>)
    ELSE IF sc.ciSign[i] = ZERO \/ SmallCoefficient(row.row[i].coefficient)
         THEN InvertedRowEntries(s, row, sc, aux, i + 1, newBounds)
    ELSE LET xi == row.row[i].var
             AfterUpper(r1, r2) ==
                 IF FloatGt(r2.s.lowerBounds[xi], r2.s.upperBounds[xi])
                 THEN Outcome(r2.s, newBounds + r1.n + r2.n, TRUE, << >>)
                 ELSE InvertedRowEntries(r2.s, row, sc, aux, i + 1,
                                         newBounds + r1.n + r2.n)
             AfterLower(bounds, r1) ==
                 AfterUpper(r1, RegisterTighterUpperBound(r1.s, xi,
                                    FloatAdd(bounds.ub, RoundingConstant)))
             WithBounds(bounds) ==
                 AfterLower(bounds, RegisterTighterLowerBound(s, xi,
                                        FloatSub(bounds.lb, RoundingConstant)))
         IN  WithBounds(InvertedEntryBounds(sc, aux, row, i))

TightenOnSingleInvertedBasisRow(s, row) ==
    LET y == row.lhs
        AfterUpper(sc, r1, r2) ==
            IF FloatGt(r2.s.lowerBounds[y], r2.s.upperBounds[y])
            THEN Outcome(r2.s, r1.n + r2.n, TRUE, << >>)
            ELSE InvertedRowEntries(r2.s, row, sc,
                     InvertedRowAux(sc, 1,
                         [lb |-> FloatSub(r2.s.lowerBounds[y], row.scalar),
                          ub |-> FloatSub(r2.s.upperBounds[y], row.scalar)]),
                     1, r1.n + r2.n)
        AfterLower(sc, yBounds, r1) ==
            AfterUpper(sc, r1, RegisterTighterUpperBound(r1.s, y,
                                   FloatAdd(yBounds.ub, RoundingConstant)))
        WithLhsBounds(sc, yBounds) ==
            AfterLower(sc, yBounds, RegisterTighterLowerBound(s, y,
                                        FloatSub(yBounds.lb, RoundingConstant)))
        WithScratch(sc) ==
            WithLhsBounds(sc, InvertedRowLhsBounds(sc, 1,
                                  [lb |-> row.scalar, ub |-> row.scalar]))
    IN  WithScratch(InvertedRowScratch(s, row))

\* onePassOverInvertedBasisRows: the rows in index order.
RECURSIVE OnePassOverInvertedBasisRowsFrom(_, _, _, _, _)
OnePassOverInvertedBasisRowsFrom(s, rows, i, newBounds, done) ==
    IF i > Len(rows) THEN Outcome(s, newBounds, FALSE, done)
    ELSE LET AfterRow(r) ==
                 IF r.thrown
                 THEN Outcome(r.s, newBounds + r.result, TRUE, Append(done, i))
                 ELSE OnePassOverInvertedBasisRowsFrom(r.s, rows, i + 1,
                          newBounds + r.result, Append(done, i))
         IN  AfterRow(TightenOnSingleInvertedBasisRow(s, rows[i]))

OnePassOverInvertedBasisRows(s, rows) ==
    OnePassOverInvertedBasisRowsFrom(s, rows, 1, 0, << >>)

\* lines 203-216 (and 141-154): the do-while over the passes.
RECURSIVE ExamineInvertedBasisLoop(_, _, _, _, _)
ExamineInvertedBasisLoop(s, rows, maxNumberOfIterations, passes, done) ==
    LET AfterPass(r) ==
            IF r.thrown
            THEN [s |-> r.s, passes |-> Append(passes, r.result), thrown |-> TRUE,
                  rows |-> done \o r.rows]
            ELSE IF maxNumberOfIterations - 1 # 0 /\ r.result > 0
            THEN ExamineInvertedBasisLoop(r.s, rows, maxNumberOfIterations - 1,
                     Append(passes, r.result), done \o r.rows)
            ELSE [s |-> r.s, passes |-> Append(passes, r.result), thrown |-> FALSE,
                  rows |-> done \o r.rows]
    IN  AfterPass(OnePassOverInvertedBasisRows(s, rows))

\* A product of two coefficients, and sums over 1..k.
CoefficientTimes(c, d) == Quotient(c * d, CoefficientOne)

RECURSIVE SumOver(_, _)
SumOver(f, k) == IF k = 0 THEN 0 ELSE FloatAdd(SumOver(f, k - 1), f[k])

\* The entry of column var in row k of A (ITableau::getAColumn).
AEntry(tableau, k, var) ==
    LET sparseRow == tableau.A[k]
    IN  IF \E e \in DOMAIN sparseRow : sparseRow[e].index = var
        THEN sparseRow[CHOOSE e \in DOMAIN sparseRow : sparseRow[e].index = var].value
        ELSE 0

\* examineInvertedBasisMatrix, lines 172-197: row i of inv(B)*b - inv(B)*An.
ExplicitRows(tableau) ==
    [i \in 1..tableau.m |->
        [ lhs |-> tableau.basic[i],
          scalar |-> SumOver([j \in 1..tableau.m |->
                                 FloatTimes(tableau.invB[i][j], tableau.b[j])],
                             tableau.m),
          row |-> [j \in 1..(tableau.n - tableau.m) |->
                    [ var |-> tableau.nonBasic[j],
                      coefficient |->
                          0 - SumOver([k \in 1..tableau.m |->
                                          CoefficientTimes(tableau.invB[i][k],
                                              AEntry(tableau, k, tableau.nonBasic[j]))],
                                      tableau.m) ]] ]]

\* ITableau::forwardTransformation: z with Bz = y, as the tableau's basis
\* factorization solves it.
ForwardTransformationOfValues(tableau, y) ==
    [i \in 1..tableau.m |->
        SumOver([j \in 1..tableau.m |-> FloatTimes(tableau.invB[i][j], y[j])], tableau.m)]

ForwardTransformationOfColumn(tableau, var) ==
    [i \in 1..tableau.m |->
        SumOver([k \in 1..tableau.m |->
                    CoefficientTimes(tableau.invB[i][k], AEntry(tableau, k, var))],
                tableau.m)]

\* examineImplicitInvertedBasisMatrix, lines 116-136.
\* (rows that take z as the coefficients, without the minus sign)
ImplicitRows_NoMinus(tableau) ==
    LET z == ForwardTransformationOfValues(tableau, tableau.b)
    IN  [i \in 1..tableau.m |->
            [ lhs |-> tableau.basic[i],
              scalar |-> z[i],
              row |-> [j \in 1..(tableau.n - tableau.m) |->
                        [ var |-> tableau.nonBasic[j],
                          coefficient |->
                              ForwardTransformationOfColumn(tableau,
                                                            tableau.nonBasic[j])[i] ]] ]]

ImplicitRows(tableau) ==
    LET z == ForwardTransformationOfValues(tableau, tableau.b)
    IN  [i \in 1..tableau.m |->
            [ lhs |-> tableau.basic[i],
              scalar |-> z[i],
              row |-> [j \in 1..(tableau.n - tableau.m) |->
                        [ var |-> tableau.nonBasic[j],
                          coefficient |->
                              0 - ForwardTransformationOfColumn(tableau,
                                                                tableau.nonBasic[j])[i] ]] ]]

\* examineInvertedBasisMatrix: invB lists what happens to the inverse the
\* tableau hands out (line 168): the rows are computed from it (lines
\* 172-197); an exception lands in the catch block, which deletes it and
\* throws again (lines 218-222); without one line 224 deletes it.
\* (a call in which an exception passes through with no catch block)
ExamineInvertedBasisMatrix_NoCatch(s, tableau, untilSaturation) ==
    LET Released(r) ==
            [s |-> r.s, passes |-> r.passes, thrown |-> r.thrown, rows |-> r.rows,
             invB |-> << "get", "read" >>
                         \o (IF r.thrown THEN << "throw" >>
                                         ELSE << "delete", "return" >>)]
    IN  Released(ExamineInvertedBasisLoop(s, ExplicitRows(tableau),
                     IF untilSaturation THEN SaturationIterations ELSE 1,
                     << >>, << >>))

ExamineInvertedBasisMatrix(s, tableau, untilSaturation) ==
    LET Released(r) ==
            [s |-> r.s, passes |-> r.passes, thrown |-> r.thrown, rows |-> r.rows,
             invB |-> << "get", "read" >>
                         \o (IF r.thrown THEN << "delete", "throw" >> ELSE << >>)
                         \o (IF r.thrown THEN << >> ELSE << "delete", "return" >>)]
    IN  Released(ExamineInvertedBasisLoop(s, ExplicitRows(tableau),
                     IF untilSaturation THEN SaturationIterations ELSE 1,
                     << >>, << >>))

\* examineInvertedBasisMatrix when a call made while the rows are computed
\* throws: the catch block of lines 218-222, with no bound touched.
ExamineInvertedBasisMatrixInterrupted(s) ==
    [s |-> s, passes |-> << >>, thrown |-> FALSE, rows |-> << >>,
     invB |-> << "get", "read", "delete", "throw" >>]

ExamineImplicitInvertedBasisMatrix(s, tableau, untilSaturation) ==
    ExamineInvertedBasisLoop(s, ImplicitRows(tableau),
        IF untilSaturation THEN SaturationIterations ELSE 1, << >>, << >>)

\* examinePivotRow
ExaminePivotRow(s, tableau) ==
    LET AfterRow(r) ==
            [s |-> r.s, passes |-> << r.result >>, thrown |-> r.thrown,
             rows |-> << 1 >>]
    IN  AfterRow(TightenOnSingleInvertedBasisRow(s, tableau.pivotRow))

\* ---------------------------------------------------------------- Context
Scope(s) ==
    [ storedLower |-> s.storedLower, storedUpper |-> s.storedUpper,
      consistentBounds |-> s.consistentBounds,
      inconsistentVariable |-> s.inconsistentVariable,
      explanations |-> s.explanations ]

ContextGetLevel(s) == Len(s.context)

ContextPush(s) == [s EXCEPT !.context = Append(@, Scope(s))]

\* (a pop that leaves the context-dependent checkpoint as it is)
ContextPop_NoRevert(s) ==
    LET sc == s.context[Len(s.context)]
    IN  [s EXCEPT !.context = SubSeq(@, 1, Len(@) - 1),
                  !.consistentBounds = sc.consistentBounds,
                  !.inconsistentVariable = sc.inconsistentVariable,
                  !.explanations = sc.explanations]

\* (a pop that leaves the explanations as they are)
ContextPop_KeepExplanations(s) ==
    LET sc == s.context[Len(s.context)]
    IN  [s EXCEPT !.context = SubSeq(@, 1, Len(@) - 1),
                  !.storedLower = sc.storedLower,
                  !.storedUpper = sc.storedUpper,
                  !.consistentBounds = sc.consistentBounds,
                  !.inconsistentVariable = sc.inconsistentVariable]

ContextPop(s) ==
    LET sc == s.context[Len(s.context)]
    IN  [s EXCEPT !.context = SubSeq(@, 1, Len(@) - 1),
                  !.storedLower = sc.storedLower,
                  !.storedUpper = sc.storedUpper,
                  !.consistentBounds = sc.consistentBounds,
                  !.inconsistentVariable = sc.inconsistentVariable,
                  !.explanations = sc.explanations]

RECURSIVE ContextPopto(_, _)
ContextPopto(s, level) ==
    IF Len(s.context) > level THEN ContextPopto(ContextPop(s), level) ELSE s

\* ----------------------------------------------------------- Engine facade
\* What SmtCore asks of IEngine.  The hooks checkpoint the local bounds in
\* the context, storeState / restoreState capture and reinstate the bounds
\* and the constraints' active flags, applySplit hands the bounds of a case
\* to the bound manager.
ECall(f) == [f |-> f, split |-> << >>]
ECallSplit(f, split) == [f |-> f, split |-> split]

EnginePreContextPushHook(s) == Call(BMStoreLocalBounds(s), ECall("preContextPushHook"))

EnginePostContextPopHook(s) == Call(BMRestoreLocalBounds(s), ECall("postContextPopHook"))

EngineStoreState(s, id, level) ==
    [ stateId |-> id, level |-> level,
      lower |-> s.lowerBounds, upper |-> s.upperBounds, active |-> s.active ]

EngineRestoreState(s, es) ==
    Call([s EXCEPT !.lowerBounds = es.lower, !.upperBounds = es.upper,
                   !.active = es.active],
         ECall("restoreState"))

RECURSIVE ApplyBounds(_, _)
ApplyBounds(s, bounds) ==
    IF bounds = << >> THEN s
    ELSE LET b == Head(bounds)
             s1 == IF b.type = LB THEN BMSetLowerBound(s, b.variable, b.value)
                                  ELSE BMSetUpperBound(s, b.variable, b.value)
         IN  ApplyBounds(s1, Tail(bounds))

EngineApplySplit(s, split) == Call(ApplyBounds(s, split), ECallSplit("applySplit", split))

EngineConsistentBounds(s) == s.consistentBounds

\* UnsatCertificateNode and the certificate accessors of the engine: the
\* nodes in the order they were created, each with its parent (NULL for the
\* root) and the split that labels it, and the current pointer.
NoCertificate == [produceProofs |-> FALSE, nodes |-> << >>, current |-> NULL]

CertificateRoot ==
    [produceProofs |-> TRUE,
     nodes |-> << [parent |-> NULL, split |-> << >>] >>,
     current |-> 1]

EngineShouldProduceProofs(s) == s.unsatCertificate.produceProofs

EngineGetUNSATCertificateRoot(s) ==
    IF s.unsatCertificate.nodes = << >> THEN NULL ELSE 1

EngineGetUNSATCertificateCurrentPointer(s) == s.unsatCertificate.current

EngineSetUNSATCertificateCurrentPointer(s, node) ==
    [s EXCEPT !.unsatCertificate.current = node]

\* new UnsatCertificateNode( parent, split )
NewUnsatCertificateNode(s, parent, split) ==
    [s EXCEPT !.unsatCertificate.nodes = Append(@, [parent |-> parent, split |-> split])]

GetParent(s, node) == s.unsatCertificate.nodes[node].parent

\* the first child of node labelled with split, NULL when there is none
GetChildBySplit(s, node, split) ==
    LET nodes == s.unsatCertificate.nodes
        children == { k \in DOMAIN nodes : nodes[k].parent = node /\ nodes[k].split = split }
    IN  IF children = {} THEN NULL
        ELSE CHOOSE k \in children : \A j \in children : k <= j

\* ---------------------------------------------------------------- SmtCore
\* (a pushContext that forgets the push)
SmtCorePushContext_NoPush(s) == Call(s, ECall("push"))

SmtCorePushContext(s) == Call(ContextPush(s), ECall("push"))

SmtCorePopContext(s) == Call(ContextPop(s), ECall("pop"))

SmtCoreFreeMemory(s) == [s EXCEPT !.stack = << >>]

SmtCoreReset(s) ==
    LET s1 == Call(ContextPopto(s, 0), ECall("popto"))
        s2 == EnginePostContextPopHook(s1)
        s3 == SmtCoreFreeMemory(s2)
    IN  [s3 EXCEPT !.impliedValidSplitsAtRoot = << >>,
                   !.needToSplit = FALSE,
                   !.constraintForSplitting = NULL,
                   !.stateId = 0,
                   !.constraintToViolationCount = [c \in Constraints |-> 0],
                   !.numRejectedPhasePatternProposal = 0]

\* pick is what IEngine::pickSplitPLConstraint returns (NULL when the
\* heuristic declines).
SmtCorePickSplitPLConstraint(s, pick) ==
    IF s.needToSplit THEN [s EXCEPT !.constraintForSplitting = pick] ELSE s

\* (a report that passes the threshold without asking the heuristic)
SmtCoreReportViolatedConstraint_NoHeuristic(s, constraint, pick) ==
    LET s1 == [s EXCEPT !.constraintToViolationCount[constraint] = @ + 1]
    IN  IF s1.constraintToViolationCount[constraint] >= ConstraintViolationThreshold
        THEN [s1 EXCEPT !.needToSplit = TRUE, !.constraintForSplitting = constraint]
        ELSE s1

SmtCoreReportViolatedConstraint(s, constraint, pick) ==
    LET s1 == [s EXCEPT !.constraintToViolationCount[constraint] = @ + 1]
    IN  IF s1.constraintToViolationCount[constraint] >= ConstraintViolationThreshold
        THEN LET s2 == [s1 EXCEPT !.needToSplit = TRUE]
                 s3 == SmtCorePickSplitPLConstraint(s2, pick)
             IN  IF s3.constraintForSplitting = NULL
                 THEN [s3 EXCEPT !.constraintForSplitting = constraint]
                 ELSE s3
        ELSE s1

\* performSplit, lines 170-176: the candidate has become inactive.
SmtCoreIgnoreInactive_KeepFlag(s, c) ==
    [s EXCEPT !.constraintToViolationCount[c] = 0,
              !.constraintForSplitting = NULL]

SmtCoreIgnoreInactive(s, c) ==
    [s EXCEPT !.needToSplit = FALSE,
              !.constraintToViolationCount[c] = 0,
              !.constraintForSplitting = NULL]

\* performSplit, lines 215-240: the new stack entry.
SmtCoreNewStackEntry_KeepFirst(splits, stateBeforeSplits) ==
    [ activeSplit |-> Head(splits),
      engineState |-> stateBeforeSplits,
      alternativeSplits |-> splits,
      impliedValidSplits |-> << >> ]

SmtCoreNewStackEntry(splits, stateBeforeSplits) ==
    [ activeSplit |-> Head(splits),
      engineState |-> stateBeforeSplits,
      alternativeSplits |-> Tail(splits),
      impliedValidSplits |-> << >> ]

\* performSplit, lines 205-228: one child per case under the current node
\* of the certificate, and the pointer moved to the child of the first case.
RECURSIVE SmtCoreAddChildren(_, _, _)
SmtCoreAddChildren(s, certificateNode, splits) ==
    IF splits = << >> THEN s
    ELSE SmtCoreAddChildren(NewUnsatCertificateNode(s, certificateNode, Head(splits)),
                            certificateNode, Tail(splits))

\* (a split that leaves the pointer where it was)
SmtCoreCertifySplit_KeepPointer(s, splits) ==
    IF EngineShouldProduceProofs(s) /\ EngineGetUNSATCertificateRoot(s) # NULL
    THEN SmtCoreAddChildren(s, EngineGetUNSATCertificateCurrentPointer(s), splits)
    ELSE s

SmtCoreCertifySplit(s, splits) ==
    IF EngineShouldProduceProofs(s) /\ EngineGetUNSATCertificateRoot(s) # NULL
    THEN LET certificateNode == EngineGetUNSATCertificateCurrentPointer(s)
             s1 == SmtCoreAddChildren(s, certificateNode, splits)
         IN  EngineSetUNSATCertificateCurrentPointer(s1,
                 GetChildBySplit(s1, certificateNode, Head(splits)))
    ELSE s

\* (a split that takes the snapshot after the first case is applied)
SmtCorePerformSplit_StoreLate(s) ==
    LET c  == s.constraintForSplitting
        s0 == [s EXCEPT !.numRejectedPhasePatternProposal = 0]
    IN  IF ~s0.active[c]
        THEN SmtCoreIgnoreInactive(s0, c)
        ELSE
        LET s1 == [s0 EXCEPT !.needToSplit = FALSE]
            splits == CaseSplitsOf(c)
            s2 == Call([s1 EXCEPT !.active[c] = FALSE], ECall("setActiveConstraint(false)"))
            s4 == EnginePreContextPushHook(s2)
            s5 == SmtCorePushContext(s4)
            s6 == EngineApplySplit(SmtCoreCertifySplit(s5, splits), Head(splits))
            stateBeforeSplits == EngineStoreState(s6, s6.stateId, "STORE_BOUNDS_ONLY")
            s7 == Call([s6 EXCEPT !.stateId = @ + 1], ECall("storeState(STORE_BOUNDS_ONLY)"))
            stackEntry == SmtCoreNewStackEntry(splits, stateBeforeSplits)
        IN  [s7 EXCEPT !.stack = Append(@, stackEntry),
                       !.constraintForSplitting = NULL]

SmtCorePerformSplit(s) ==
    LET c  == s.constraintForSplitting
        s0 == [s EXCEPT !.numRejectedPhasePatternProposal = 0]
    IN  IF ~s0.active[c]
        THEN SmtCoreIgnoreInactive(s0, c)
        ELSE
        LET s1 == [s0 EXCEPT !.needToSplit = FALSE]
            splits == CaseSplitsOf(c)
            s2 == Call([s1 EXCEPT !.active[c] = FALSE], ECall("setActiveConstraint(false)"))
            stateBeforeSplits == EngineStoreState(s2, s2.stateId, "STORE_BOUNDS_ONLY")
            s3 == Call([s2 EXCEPT !.stateId = @ + 1], ECall("storeState(STORE_BOUNDS_ONLY)"))
            s4 == EnginePreContextPushHook(s3)
            s5 == SmtCorePushContext(s4)
            s6 == EngineApplySplit(SmtCoreCertifySplit(s5, splits), Head(splits))
            stackEntry == SmtCoreNewStackEntry(splits, stateBeforeSplits)
        IN  [s6 EXCEPT !.stack = Append(@, stackEntry),
                       !.constraintForSplitting = NULL]

\* splitAllowsStoredSolution: false if the split prevents one of the values
\* of the stored solution.
SmtCoreSplitAllowsStoredSolution(s, split) ==
    \/ DOMAIN s._debuggingSolution = {}
    \/ \A k \in DOMAIN split :
          LET bound == split[k]
              variable == bound.variable
          IN  variable \in DOMAIN s._debuggingSolution =>
                LET solutionValue == s._debuggingSolution[variable]
                    boundValue == bound.value
                IN  /\ ~(bound.type = LB /\ FloatGt(boundValue, solutionValue))
                    /\ ~(bound.type = UB /\ FloatLt(boundValue, solutionValue))

\* checkSkewFromDebuggingSolution, lines 474-503: the stack from oldest to
\* newest.  ret is what the check returns, thrown whether it throws instead.
RECURSIVE SmtCoreCheckStackEntries(_, _)
SmtCoreCheckStackEntries(s, k) ==
    IF k > Len(s.stack) THEN [ret |-> TRUE, thrown |-> FALSE]
    ELSE LET stackEntry == s.stack[k]
         IN  IF ~SmtCoreSplitAllowsStoredSolution(s, stackEntry.activeSplit)
             THEN IF stackEntry.alternativeSplits = << >>
                  THEN [ret |-> FALSE, thrown |-> TRUE]
                  ELSE [ret |-> FALSE, thrown |-> FALSE]
             ELSE IF \E i \in DOMAIN stackEntry.impliedValidSplits :
                        ~SmtCoreSplitAllowsStoredSolution(s, stackEntry.impliedValidSplits[i])
                  THEN [ret |-> FALSE, thrown |-> TRUE]
                  ELSE SmtCoreCheckStackEntries(s, k + 1)

\* (a check that looks at every frame, whatever the frames below it)
SmtCoreCheckSkewFromDebuggingSolution_NoEarlyReturn(s) ==
    IF DOMAIN s._debuggingSolution = {} THEN [ret |-> FALSE, thrown |-> FALSE]
    ELSE LET Bad(split) == ~SmtCoreSplitAllowsStoredSolution(s, split)
         IN  IF \/ \E i \in DOMAIN s.impliedValidSplitsAtRoot :
                       Bad(s.impliedValidSplitsAtRoot[i])
                \/ \E k \in DOMAIN s.stack :
                       \/ Bad(s.stack[k].activeSplit) /\ s.stack[k].alternativeSplits = << >>
                       \/ \E i \in DOMAIN s.stack[k].impliedValidSplits :
                              Bad(s.stack[k].impliedValidSplits[i])
             THEN [ret |-> FALSE, thrown |-> TRUE]
             ELSE [ret |-> \A k \in DOMAIN s.stack : ~Bad(s.stack[k].activeSplit),
                   thrown |-> FALSE]

SmtCoreCheckSkewFromDebuggingSolution(s) ==
    IF DOMAIN s._debuggingSolution = {} THEN [ret |-> FALSE, thrown |-> FALSE]
    ELSE IF \E i \in DOMAIN s.impliedValidSplitsAtRoot :
                ~SmtCoreSplitAllowsStoredSolution(s, s.impliedValidSplitsAtRoot[i])
         THEN [ret |-> FALSE, thrown |-> TRUE]
         ELSE SmtCoreCheckStackEntries(s, 1)

\* a call of the check whose result is not used (lines 408, 427)
SmtCoreCheckSkew(s) ==
    IF SmtCoreCheckSkewFromDebuggingSolution(s).thrown THEN Throw(s, DEBUGGING_ERROR) ELSE s

\* popSplit, lines 317-321 and 340-344: pops should not occur from a
\* compliant stack.
SmtCorePopsCompliantStack(s) ==
    LET check == SmtCoreCheckSkewFromDebuggingSolution(s)
    IN  check.thrown \/ check.ret

SmtCoreStoreDebuggingSolution(s, debuggingSolution) ==
    [s EXCEPT !._debuggingSolution = debuggingSolution]

\* The inner loop of popSplit: remove the entries that have no alternatives.
RECURSIVE SmtCoreRemoveExhausted(_)
SmtCoreRemoveExhausted(s) ==
    IF s.stack # << >> /\ s.stack[Len(s.stack)].alternativeSplits = << >>
    THEN IF SmtCorePopsCompliantStack(s) THEN Throw(s, DEBUGGING_ERROR) ELSE
         LET s1 == [s EXCEPT !.stack = SubSeq(@, 1, Len(@) - 1)]
             s2 == SmtCorePopContext(s1)
             s3 == IF EngineShouldProduceProofs(s2)
                      /\ EngineGetUNSATCertificateCurrentPointer(s2) # NULL
                   THEN EngineSetUNSATCertificateCurrentPointer(s2,
                            GetParent(s2, EngineGetUNSATCertificateCurrentPointer(s2)))
                   ELSE s2
         IN  SmtCoreRemoveExhausted(s3)
    ELSE s

\* popSplit, lines 365-379: the pointer moves to the child labelled with the
\* chosen split, of the current node or of the nearest ancestor that has one
\* (NULL when the search runs past the root).
RECURSIVE SmtCoreFindSplitChild(_, _, _)
SmtCoreFindSplitChild(s, certificateNode, split) ==
    IF certificateNode = NULL THEN NULL
    ELSE IF GetChildBySplit(s, certificateNode, split) # NULL
    THEN GetChildBySplit(s, certificateNode, split)
    ELSE SmtCoreFindSplitChild(s, GetParent(s, certificateNode), split)

SmtCoreCertifyAlternative(s, split) ==
    IF EngineShouldProduceProofs(s) /\ EngineGetUNSATCertificateCurrentPointer(s) # NULL
    THEN EngineSetUNSATCertificateCurrentPointer(s,
             SmtCoreFindSplitChild(s, EngineGetUNSATCertificateCurrentPointer(s), split))
    ELSE s

\* popSplit, lines 347-389: the top entry moves to its next alternative.
\* (an advance that skips restoreState)
SmtCoreApplyNextAlternative_NoRestore(s1) ==
    LET top == Len(s1.stack)
        stackEntry == s1.stack[top]
        s2 == SmtCorePopContext(s1)
        s3 == EnginePostContextPopHook(s2)
        split == Head(stackEntry.alternativeSplits)
        s5 == Call([s3 EXCEPT !.stack[top].impliedValidSplits = << >>],
                   ECall("impliedValidSplits.clear"))
        s6 == EnginePreContextPushHook(SmtCoreCertifyAlternative(s5, split))
        s7 == SmtCorePushContext(s6)
        s8 == EngineApplySplit(s7, split)
    IN  [s8 EXCEPT !.stack[top].activeSplit = split,
                   !.stack[top].alternativeSplits = Tail(@)]

\* (an advance that applies the case twice)
SmtCoreApplyNextAlternative_Twice(s1) ==
    LET top == Len(s1.stack)
        stackEntry == s1.stack[top]
        s2 == SmtCorePopContext(s1)
        s3 == EnginePostContextPopHook(s2)
        s4 == EngineRestoreState(s3, stackEntry.engineState)
        split == Head(stackEntry.alternativeSplits)
        s5 == Call([s4 EXCEPT !.stack[top].impliedValidSplits = << >>],
                   ECall("impliedValidSplits.clear"))
        s6 == EnginePreContextPushHook(SmtCoreCertifyAlternative(s5, split))
        s7 == SmtCorePushContext(s6)
        s8 == EngineApplySplit(EngineApplySplit(s7, split), split)
    IN  [s8 EXCEPT !.stack[top].activeSplit = split,
                   !.stack[top].alternativeSplits = Tail(@)]

\* (an advance that restores the snapshot after the case is applied)
SmtCoreApplyNextAlternative_RestoreLate(s1) ==
    LET top == Len(s1.stack)
        stackEntry == s1.stack[top]
        s2 == SmtCorePopContext(s1)
        s3 == EnginePostContextPopHook(s2)
        split == Head(stackEntry.alternativeSplits)
        s5 == Call([s3 EXCEPT !.stack[top].impliedValidSplits = << >>],
                   ECall("impliedValidSplits.clear"))
        s6 == EnginePreContextPushHook(SmtCoreCertifyAlternative(s5, split))
        s7 == SmtCorePushContext(s6)
        s8 == EngineRestoreState(EngineApplySplit(s7, split), stackEntry.engineState)
    IN  [s8 EXCEPT !.stack[top].activeSplit = split,
                   !.stack[top].alternativeSplits = Tail(@)]

\* (an advance that takes the last alternative instead of the first)
SmtCoreApplyNextAlternative_LastFirst(s1) ==
    LET top == Len(s1.stack)
        stackEntry == s1.stack[top]
        s2 == SmtCorePopContext(s1)
        s3 == EnginePostContextPopHook(s2)
        s4 == EngineRestoreState(s3, stackEntry.engineState)
        split == stackEntry.alternativeSplits[Len(stackEntry.alternativeSplits)]
        s5 == Call([s4 EXCEPT !.stack[top].impliedValidSplits = << >>],
                   ECall("impliedValidSplits.clear"))
        s6 == EnginePreContextPushHook(SmtCoreCertifyAlternative(s5, split))
        s7 == SmtCorePushContext(s6)
        s8 == EngineApplySplit(s7, split)
    IN  [s8 EXCEPT !.stack[top].activeSplit = split,
                   !.stack[top].alternativeSplits = SubSeq(@, 1, Len(@) - 1)]

SmtCoreApplyNextAlternative(s1) ==
    LET top == Len(s1.stack)
        stackEntry == s1.stack[top]
        s2 == SmtCorePopContext(s1)
        s3 == EnginePostContextPopHook(s2)
        s4 == EngineRestoreState(s3, stackEntry.engineState)
        split == Head(stackEntry.alternativeSplits)
        s5 == Call([s4 EXCEPT !.stack[top].impliedValidSplits = << >>],
                   ECall("impliedValidSplits.clear"))
        s6 == EnginePreContextPushHook(SmtCoreCertifyAlternative(s5, split))
        s7 == SmtCorePushContext(s6)
        s8 == EngineApplySplit(s7, split)
    IN  [s8 EXCEPT !.stack[top].activeSplit = split,
                   !.stack[top].alternativeSplits = Tail(@)]

\* (a popSplit that does not look at the engine's answer)
SmtCorePopSplitLoop_NoRetry(s) ==
    LET s1 == SmtCoreRemoveExhausted(s)
    IN  IF s1.stack = << >>
        THEN [s |-> s1, ret |-> FALSE]
        ELSE LET s9 == SmtCoreApplyNextAlternative(s1)
                 inconsistent == ~EngineConsistentBounds(s9)
             IN  [s |-> Call(s9, ECall(IF inconsistent THEN "consistentBounds=false"
                                                        ELSE "consistentBounds=true")),
                  ret |-> TRUE]

\* The outer loop of popSplit, from a non-empty stack.
RECURSIVE SmtCorePopSplitLoop(_)
SmtCorePopSplitLoop(s) ==
    LET s1 == SmtCoreRemoveExhausted(s)
    IN  IF s1.error # NoError \/ s1.stack = << >>
        THEN [s |-> s1, ret |-> FALSE]
        ELSE IF SmtCorePopsCompliantStack(s1)
        THEN [s |-> Throw(s1, DEBUGGING_ERROR), ret |-> FALSE]
        ELSE
        LET s9 == SmtCoreApplyNextAlternative(s1)
            inconsistent == ~EngineConsistentBounds(s9)
            s10 == Call(s9, ECall(IF inconsistent THEN "consistentBounds=false"
                                                  ELSE "consistentBounds=true"))
            s11 == SmtCoreCheckSkew(s10)
        IN  IF inconsistent THEN SmtCorePopSplitLoop(s10)
                            ELSE [s |-> s11, ret |-> s11.error = NoError]

\* (a popSplit whose inner loop lacks the return false)
SmtCorePopSplit_AlwaysTrue(s) ==
    IF s.stack = << >> THEN [s |-> s, ret |-> FALSE]
    ELSE [s |-> SmtCorePopSplitLoop(s).s, ret |-> TRUE]

SmtCorePopSplit(s) ==
    IF s.stack = << >> THEN [s |-> s, ret |-> FALSE] ELSE SmtCorePopSplitLoop(s)

SmtCoreResetSplitConditions(s) ==
    [s EXCEPT !.constraintToViolationCount = [c \in Constraints |-> 0],
              !.numRejectedPhasePatternProposal = 0,
              !.needToSplit = FALSE]

\* (a recordImpliedValidSplit that ignores the stack)
SmtCoreRecordImpliedValidSplit_AlwaysRoot(s, validSplit) ==
    [s EXCEPT !.impliedValidSplitsAtRoot = Append(@, validSplit)]

SmtCoreRecordImpliedValidSplit(s, validSplit) ==
    SmtCoreCheckSkew(
        IF s.stack = << >>
        THEN [s EXCEPT !.impliedValidSplitsAtRoot = Append(@, validSplit)]
        ELSE [s EXCEPT !.stack[Len(s.stack)].impliedValidSplits = Append(@, validSplit)])

RECURSIVE StackSplits(_)
StackSplits(stk) ==
    IF stk = << >> THEN << >>
    ELSE << Head(stk).activeSplit >> \o Head(stk).impliedValidSplits \o StackSplits(Tail(stk))

\* out is the caller's list on entry
SmtCoreAllSplitsSoFar_NoClear(s, out) ==
    out \o s.impliedValidSplitsAtRoot \o StackSplits(s.stack)

SmtCoreAllSplitsSoFar(s, out) ==
    LET cleared == << >>
    IN  cleared \o s.impliedValidSplitsAtRoot \o StackSplits(s.stack)

SmtCoreGetStackDepth(s) == Len(s.stack)

\* SmtStackEntry::duplicateSmtStackEntry: the splits are copied, the engine
\* state is not.
DuplicateSmtStackEntry(stackEntry) == [stackEntry EXCEPT !.engineState = NULL]

\* (a store that leaves out the implied splits of the frames)
SmtCoreStoreSmtState_NoImplied(s) ==
    [s EXCEPT !.smtState =
        [ impliedValidSplitsAtRoot |-> s.impliedValidSplitsAtRoot,
          stack |-> [k \in DOMAIN s.stack |->
                        [DuplicateSmtStackEntry(s.stack[k]) EXCEPT !.impliedValidSplits = << >>]],
          stateId |-> s.stateId ]]

\* smtState is the caller's (empty) SmtState
SmtCoreStoreSmtState(s) ==
    [s EXCEPT !.smtState =
        [ impliedValidSplitsAtRoot |-> s.impliedValidSplitsAtRoot,
          stack |-> [k \in DOMAIN s.stack |-> DuplicateSmtStackEntry(s.stack[k])],
          stateId |-> s.stateId ]]

RECURSIVE EngineApplySplits(_, _)
EngineApplySplits(s, splits) ==
    IF splits = << >> THEN s
    ELSE EngineApplySplits(EngineApplySplit(s, Head(splits)), Tail(splits))

\* (a replay that pushes a context level as performSplit does)
SmtCoreReplaySmtStackEntry_Push(s, stackEntry) ==
    LET stateBeforeSplits == EngineStoreState(s, s.stateId, "STORE_ENTIRE_TABLEAU_STATE")
        s1 == Call([s EXCEPT !.stateId = @ + 1], ECall("storeState(STORE_ENTIRE_TABLEAU_STATE)"))
        s2 == EngineApplySplit(SmtCorePushContext(s1), stackEntry.activeSplit)
        s3 == EngineApplySplits(s2, stackEntry.impliedValidSplits)
    IN  [s3 EXCEPT !.stack = Append(@, [stackEntry EXCEPT !.engineState = stateBeforeSplits])]

SmtCoreReplaySmtStackEntry(s, stackEntry) ==
    LET stateBeforeSplits == EngineStoreState(s, s.stateId, "STORE_ENTIRE_TABLEAU_STATE")
        s1 == Call([s EXCEPT !.stateId = @ + 1], ECall("storeState(STORE_ENTIRE_TABLEAU_STATE)"))
        s2 == EngineApplySplit(s1, stackEntry.activeSplit)
        s3 == EngineApplySplits(s2, stackEntry.impliedValidSplits)
    IN  [s3 EXCEPT !.stack = Append(@, [stackEntry EXCEPT !.engineState = stateBeforeSplits])]

\* getViolationCounts: a constraint that was never reported counts 0 (the
\* map of the model holds 0 for it).
SmtCoreGetViolationCounts(s, constraint) == s.constraintToViolationCount[constraint]

\* chooseViolatedConstraintForFixing, lines 564-584: the loop over the list.
RECURSIVE SmtCoreLeastFixLoop(_, _, _, _, _)
SmtCoreLeastFixLoop(s, violatedPlConstraints, it, candidate, minFixes) ==
    IF it > Len(violatedPlConstraints) THEN candidate
    ELSE LET contender == violatedPlConstraints[it]
             contenderFixes == SmtCoreGetViolationCounts(s, contender)
         IN  IF contenderFixes < minFixes
             THEN SmtCoreLeastFixLoop(s, violatedPlConstraints, it + 1,
                                      contender, contenderFixes)
             ELSE SmtCoreLeastFixLoop(s, violatedPlConstraints, it + 1,
                                      candidate, minFixes)

\* useLeastFix is GlobalConfiguration::USE_LEAST_FIX.
\* (a choice that always takes the first of the list)
SmtCoreChooseViolatedConstraintForFixing_First(s, violatedPlConstraints, useLeastFix) ==
    violatedPlConstraints[1]

SmtCoreChooseViolatedConstraintForFixing(s, violatedPlConstraints, useLeastFix) ==
    IF ~useLeastFix THEN violatedPlConstraints[1]
    ELSE SmtCoreLeastFixLoop(s, violatedPlConstraints, 1, violatedPlConstraints[1],
             SmtCoreGetViolationCounts(s, violatedPlConstraints[1]))

\* Engine::applyAllBoundTightenings: the engine takes the tightenings the
\* bound manager has logged.
EngineApplyAllBoundTightenings(s) ==
    Call(BMDrainTightenings(s).s, ECall("applyAllBoundTightenings"))

\* Engine::applyAllValidConstraintCaseSplits: valid is the constraint whose
\* phase has become fixed (NULL when there is none); it is deactivated and
\* its case recorded as implied and applied.
EngineApplyAllValidConstraintCaseSplits(s, valid) ==
    LET s1 == Call(s, ECall("applyAllValidConstraintCaseSplits"))
    IN  IF valid = NULL \/ ~s1.active[valid] THEN s1
        ELSE EngineApplySplit(
                 SmtCoreRecordImpliedValidSplit([s1 EXCEPT !.active[valid] = FALSE],
                                                CaseSplitsOf(valid)[1]),
                 CaseSplitsOf(valid)[1])

\* reportRejectedPhasePatternProposal: pick is what the heuristic of the
\* engine returns and top what PseudoImpactTracker::topUnfixed returns.
\* (a report that calls no hook of the engine)
SmtCoreReportRejectedPhasePatternProposal_NoHooks(s, valid, pick, top) ==
    LET s1 == [s EXCEPT !.numRejectedPhasePatternProposal = @ + 1]
    IN  IF s1.numRejectedPhasePatternProposal >= DeepSoIRejectionThreshold
        THEN LET s2 == [s1 EXCEPT !.needToSplit = TRUE]
                 s5 == Call(SmtCorePickSplitPLConstraint(s2, pick),
                            ECall("pickSplitPLConstraint"))
             IN  IF s5.constraintForSplitting = NULL
                 THEN Call([s5 EXCEPT !.constraintForSplitting = top],
                           ECall("topUnfixed"))
                 ELSE s5
        ELSE s1

SmtCoreReportRejectedPhasePatternProposal(s, valid, pick, top) ==
    LET s1 == [s EXCEPT !.numRejectedPhasePatternProposal = @ + 1]
    IN  IF s1.numRejectedPhasePatternProposal >= DeepSoIRejectionThreshold
        THEN LET s2 == [s1 EXCEPT !.needToSplit = TRUE]
                 s3 == EngineApplyAllBoundTightenings(s2)
                 s4 == EngineApplyAllValidConstraintCaseSplits(s3, valid)
                 s5 == Call(SmtCorePickSplitPLConstraint(s4, pick),
                            ECall("pickSplitPLConstraint"))
             IN  IF s5.constraintForSplitting = NULL
                 THEN Call([s5 EXCEPT !.constraintForSplitting = top],
                           ECall("topUnfixed"))
                 ELSE s5
        ELSE s1

\* ------------------------------------------------------------------- Init
\* The state after construction; certificate is what the engine holds for
\* the proof (NoCertificate when it produces none).
InitSmtCore(certificate) ==
    /\ stack = << >>
    /\ impliedValidSplitsAtRoot = << >>
    /\ needToSplit = FALSE
    /\ constraintForSplitting = NULL
    /\ stateId = 0
    /\ constraintToViolationCount = [c \in Constraints |-> 0]
    /\ numRejectedPhasePatternProposal = 0
    /\ context = << >>
    /\ lowerBounds = [v \in Vars |-> NegInf]
    /\ upperBounds = [v \in Vars |-> PosInf]
    /\ storedLower = [v \in Vars |-> NegInf]
    /\ storedUpper = [v \in Vars |-> PosInf]
    /\ consistentBounds = TRUE
    /\ inconsistentVariable = 0
    /\ tightenings = << >>
    /\ active = [c \in Constraints |-> TRUE]
    /\ calls = << >>
    /\ result = << >>
    /\ drained = << >>
    /\ pushed = << >>
    /\ popped = << >>
    /\ last = [op |-> "init", ret |-> FALSE]
    /\ _tableau = NULL
    /\ unsatCertificate = certificate
    /\ explanations = NoExplainer
    /\ _debuggingSolution = NoSolution
    /\ error = NoError
    /\ smtState = NoSmtState

Init == InitSmtCore(NoCertificate)

\* The engine drains the tightening log (applyAllBoundTightenings) before it
\* lets anyone change bounds again.
Pending == tightenings = << >>

RECURSIVE NumImplied(_)
NumImplied(stk) ==
    IF stk = << >> THEN 0 ELSE Len(Head(stk).impliedValidSplits) + NumImplied(Tail(stk))

ImpliedRoom == Len(impliedValidSplitsAtRoot) + NumImplied(stack) < MaxImplied

\* ------------------------------------------------- operations of SmtCore
ReportViolatedConstraint(c, pick) ==
    /\ active[c]
    /\ pick # NULL => active[pick]
    /\ constraintToViolationCount[c] < MaxCount
    /\ Install(SmtCoreReportViolatedConstraint(Begin(State), c, pick))
    /\ last' = [op |-> "reportViolatedConstraint", ret |-> FALSE]
    /\ result' = << >>
    /\ drained' = << >>
    /\ UNCHANGED << pushed, popped >>

PerformSplit ==
    /\ needToSplit
    /\ constraintForSplitting # NULL
    /\ stateId < MaxStateId
    /\ Pending
    /\ Install(SmtCorePerformSplit(Begin(State)))
    /\ last' = [op |-> "performSplit", ret |-> active[constraintForSplitting]]
    /\ result' = << >>
    /\ drained' = << >>
    /\ UNCHANGED << pushed, popped >>

PopSplit ==
    /\ Pending
    /\ LET r == SmtCorePopSplit(Begin(State))
       IN  /\ Install(r.s)
           /\ last' = [op |-> "popSplit", ret |-> r.ret]
    /\ result' = << >>
    /\ drained' = << >>
    /\ UNCHANGED << pushed, popped >>

RecordImpliedValidSplit(split) ==
    /\ ImpliedRoom
    /\ Install(SmtCoreRecordImpliedValidSplit(Begin(State), split))
    /\ last' = [op |-> "recordImpliedValidSplit", ret |-> FALSE]
    /\ result' = << >>
    /\ drained' = << >>
    /\ UNCHANGED << pushed, popped >>

Reset ==
    /\ Install(SmtCoreReset(Begin(State)))
    /\ last' = [op |-> "reset", ret |-> FALSE]
    /\ result' = << >>
    /\ drained' = << >>
    /\ UNCHANGED << pushed, popped >>

ResetSplitConditions ==
    /\ Install(SmtCoreResetSplitConditions(Begin(State)))
    /\ last' = [op |-> "resetSplitConditions", ret |-> FALSE]
    /\ result' = << >>
    /\ drained' = << >>
    /\ UNCHANGED << pushed, popped >>

AllSplitsSoFar(out) ==
    /\ result' = SmtCoreAllSplitsSoFar(State, out)
    /\ Install(Begin(State))
    /\ last' = [op |-> "allSplitsSoFar", ret |-> FALSE]
    /\ drained' = << >>
    /\ UNCHANGED << pushed, popped >>

\* --------------------------------------------- what the engine does between
\* A bound derived by the tightener or the simplex is handed to the manager.
EngineTighten(b) ==
    /\ Pending
    /\ Install(IF b.type = LB THEN BMSetLowerBound(Begin(State), b.variable, b.value)
                              ELSE BMSetUpperBound(Begin(State), b.variable, b.value))
    /\ last' = [op |-> "tighten", ret |-> FALSE]
    /\ result' = << >>
    /\ drained' = << >>
    /\ UNCHANGED << pushed, popped >>

\* Engine::applyValidConstraintCaseSplit: a constraint whose phase is fixed
\* is deactivated, its case recorded as implied and applied.
ApplyValidConstraintCaseSplit(c, k) ==
    /\ Pending
    /\ active[c]
    /\ ImpliedRoom
    /\ LET s1 == [Begin(State) EXCEPT !.active[c] = FALSE]
           s2 == SmtCoreRecordImpliedValidSplit(s1, CaseSplitsOf(c)[k])
       IN  Install(EngineApplySplit(s2, CaseSplitsOf(c)[k]))
    /\ last' = [op |-> "applyValidConstraintCaseSplit", ret |-> FALSE]
    /\ result' = << >>
    /\ drained' = << >>
    /\ UNCHANGED << pushed, popped >>

GetTightenings ==
    /\ tightenings # << >>
    /\ LET r == BMDrainTightenings(Begin(State))
       IN  /\ drained' = r.out
           /\ Install(r.s)
    /\ last' = [op |-> "getTightenings", ret |-> FALSE]
    /\ result' = << >>
    /\ UNCHANGED << pushed, popped >>

Next ==
    \/ \E c \in Constraints, pick \in Constraints \cup {NULL} : ReportViolatedConstraint(c, pick)
    \/ PerformSplit
    \/ PopSplit
    \/ \E split \in ImpliedInputs : RecordImpliedValidSplit(split)
    \/ Reset
    \/ ResetSplitConditions
    \/ \E out \in OutInputs : AllSplitsSoFar(out)
    \/ \E b \in TightenInputs : EngineTighten(b)
    \/ \E c \in Constraints : \E k \in 1..Len(CaseSplitsOf(c)) : ApplyValidConstraintCaseSplit(c, k)
    \/ GetTightenings

Spec == Init /\ [][Next]_vars

\* C1: outside SnC mode the number of frames on the decision stack equals
\* the context level after every operation.
C1_DepthEqualsLevel == SmtCoreGetStackDepth(State) = ContextGetLevel(State)

\* C1 witness: popSplit has returned true on a stack of two frames.
C1_Witness == last.op = "popSplit" /\ last.ret /\ Len(stack) = 2 /\ Len(context) = 2

\* ------------------- reports and the choice of the candidate (SpecReports)
\* The lists of violated constraints chooseViolatedConstraintForFixing is
\* handed.
ViolatedLists == { << 1 >>, << 2 >>, << 1, 2 >>, << 2, 1 >>, << 1, 2, 1 >> }

ReportViolated(c, pick) ==
    /\ active[c]
    /\ pick # NULL => active[pick]
    /\ constraintToViolationCount[c] < MaxCount
    /\ Install(SmtCoreReportViolatedConstraint(Begin(State), c, pick))
    /\ last' = [op |-> "reportViolatedConstraint", ret |-> FALSE,
                constraint |-> c, pick |-> pick]
    /\ result' = << >>
    /\ drained' = << >>
    /\ UNCHANGED << pushed, popped >>

\* valid is the constraint the engine finds fixed when it applies the valid
\* case splits; the heuristic and the score tracker answer with constraints
\* that are active after that.
ReportRejectedPhasePatternProposal(valid, pick, top) ==
    /\ numRejectedPhasePatternProposal < MaxCount
    /\ valid # NULL => active[valid] /\ ImpliedRoom
    /\ pick # NULL => active[pick] /\ pick # valid
    /\ top # NULL => active[top] /\ top # valid
    /\ Install(SmtCoreReportRejectedPhasePatternProposal(Begin(State), valid, pick, top))
    /\ last' = [op |-> "reportRejectedPhasePatternProposal", ret |-> FALSE,
                valid |-> valid, pick |-> pick, top |-> top]
    /\ result' = << >>
    /\ drained' = << >>
    /\ UNCHANGED << pushed, popped >>

ChooseViolatedConstraintForFixing(violatedPlConstraints, useLeastFix) ==
    /\ Install(Begin(State))
    /\ last' = [op |-> "chooseViolatedConstraintForFixing",
                ret |-> SmtCoreChooseViolatedConstraintForFixing(State,
                            violatedPlConstraints, useLeastFix),
                violatedPlConstraints |-> violatedPlConstraints,
                useLeastFix |-> useLeastFix]
    /\ result' = << >>
    /\ drained' = << >>
    /\ UNCHANGED << pushed, popped >>

\* performSplit is called when a split is needed and there is a candidate.
SplitOnCandidate ==
    /\ needToSplit
    /\ constraintForSplitting # NULL
    /\ stateId < MaxStateId
    /\ Install(SmtCorePerformSplit(Begin(State)))
    /\ last' = [op |-> "performSplit", ret |-> active[constraintForSplitting]]
    /\ result' = << >>
    /\ drained' = << >>
    /\ UNCHANGED << pushed, popped >>

NextReports ==
    \/ \E c \in Constraints, pick \in Constraints \cup {NULL} : ReportViolated(c, pick)
    \/ \E valid \in Constraints \cup {NULL}, pick \in Constraints \cup {NULL},
          top \in Constraints \cup {NULL} :
          ReportRejectedPhasePatternProposal(valid, pick, top)
    \/ \E violatedPlConstraints \in ViolatedLists, useLeastFix \in BOOLEAN :
          ChooseViolatedConstraintForFixing(violatedPlConstraints, useLeastFix)
    \/ SplitOnCandidate

SpecReports == Init /\ [][NextReports]_vars

\* ------------------------- the decision stack with a proof (SpecProofs)
\* The engine produces a proof and holds the root of the certificate.
InitProofs == InitSmtCore(CertificateRoot)

NextProofs ==
    \/ \E c \in Constraints, pick \in Constraints \cup {NULL} : ReportViolated(c, pick)
    \/ SplitOnCandidate
    \/ PopSplit
    \/ GetTightenings

SpecProofs == InitProofs /\ [][NextProofs]_vars

\* ------------------ the decision stack with a stored solution (SpecDebugging)
\* A possible solution is stored before the search: one that the first case
\* of constraint 1 and the first and last cases of constraint 2 contradict,
\* and one that only the second case of constraint 2 contradicts.
DebuggingSolutions ==
    { [v \in {0, 1} |-> IF v = 0 THEN 0 - 2 ELSE 0], [v \in {0} |-> 0] }

\* the splits the engine reports as implied while a solution is stored
DebuggingImplied == { <<Tightening(0, 2, UB)>>, <<Tightening(1, 2, LB)>> }

StoreDebuggingSolution(debuggingSolution) ==
    /\ last.op = "init"
    /\ Install(SmtCoreStoreDebuggingSolution(Begin(State), debuggingSolution))
    /\ last' = [op |-> "storeDebuggingSolution", ret |-> FALSE]
    /\ result' = << >>
    /\ drained' = << >>
    /\ UNCHANGED << pushed, popped >>

NextDebugging ==
    \/ \E debuggingSolution \in DebuggingSolutions : StoreDebuggingSolution(debuggingSolution)
    \/ \E c \in Constraints, pick \in Constraints \cup {NULL} : ReportViolated(c, pick)
    \/ SplitOnCandidate
    \/ PopSplit
    \/ \E split \in DebuggingImplied : RecordImpliedValidSplit(split)
    \/ GetTightenings

SpecDebugging == Init /\ [][NextDebugging]_vars

\* ------------------------- a search that only backtracks (SpecBacktrack)
\* The driver builds a stack and from its first popSplit on does nothing
\* but call popSplit, taking the logged tightenings between two calls.
Backtracking == last.op = "popSplit"

DrainForPop ==
    /\ Backtracking
    /\ ~Pending
    /\ LET r == BMDrainTightenings(State)
       IN  /\ drained' = r.out
           /\ Install(r.s)
    /\ UNCHANGED << last, result, pushed, popped >>

NextBacktrack ==
    \/ ~Backtracking /\ \E c \in Constraints, pick \in Constraints \cup {NULL} :
                            ReportViolatedConstraint(c, pick)
    \/ ~Backtracking /\ PerformSplit
    \/ ~Backtracking /\ \E b \in TightenInputs : EngineTighten(b)
    \/ ~Backtracking /\ GetTightenings
    \/ PopSplit
    \/ DrainForPop

SpecBacktrack == Init /\ [][NextBacktrack]_vars

\* --------------------------- storing and replaying the stack (SpecReplay)
\* A core builds a decision path, storeSmtState copies it into an SmtState,
\* and a fresh core with a fresh engine replays the stored frames in order.
\* the core that built the path runs until its state is stored
Building == last.op \notin {"storeSmtState", "SmtCore", "replaySmtStackEntry"}

StoreSmtState ==
    /\ Pending
    /\ Building
    /\ Install(SmtCoreStoreSmtState(Begin(State)))
    /\ last' = [op |-> "storeSmtState", ret |-> FALSE]
    /\ result' = << >>
    /\ drained' = << >>
    /\ UNCHANGED << pushed, popped >>

\* the state a newly constructed core and its engine are in
FreshCore(s) ==
    [s EXCEPT !.stack = << >>,
              !.impliedValidSplitsAtRoot = << >>,
              !.needToSplit = FALSE,
              !.constraintForSplitting = NULL,
              !.stateId = 0,
              !.constraintToViolationCount = [c \in Constraints |-> 0],
              !.numRejectedPhasePatternProposal = 0,
              !.context = << >>,
              !.lowerBounds = [v \in Vars |-> NegInf],
              !.upperBounds = [v \in Vars |-> PosInf],
              !.storedLower = [v \in Vars |-> NegInf],
              !.storedUpper = [v \in Vars |-> PosInf],
              !.consistentBounds = TRUE,
              !.inconsistentVariable = 0,
              !.tightenings = << >>,
              !.active = [c \in Constraints |-> TRUE]]

NewSmtCore ==
    /\ last.op = "storeSmtState"
    /\ Install(FreshCore(Begin(State)))
    /\ last' = [op |-> "SmtCore", ret |-> FALSE]
    /\ result' = << >>
    /\ drained' = << >>
    /\ UNCHANGED << pushed, popped >>

\* the next stored frame is replayed on the fresh core
ReplaySmtStackEntry ==
    /\ last.op \in {"SmtCore", "replaySmtStackEntry"}
    /\ Len(stack) < Len(smtState.stack)
    /\ Install(SmtCoreReplaySmtStackEntry(Begin(State), smtState.stack[Len(stack) + 1]))
    /\ last' = [op |-> "replaySmtStackEntry", ret |-> FALSE]
    /\ result' = << >>
    /\ drained' = << >>
    /\ UNCHANGED << pushed, popped >>

NextReplay ==
    \/ Building /\ \E c \in Constraints, pick \in Constraints \cup {NULL} : ReportViolated(c, pick)
    \/ Building /\ SplitOnCandidate
    \/ Building /\ PopSplit
    \/ Building /\ \E split \in ImpliedInputs : RecordImpliedValidSplit(split)
    \/ Building /\ GetTightenings
    \/ StoreSmtState
    \/ NewSmtCore
    \/ ReplaySmtStackEntry

SpecReplay == Init /\ [][NextReplay]_vars

\* ------------------------------------- the bound manager on its own (SpecBM)
\* BoundManager and Context driven directly, in the nesting that
\* Test_BoundManager.h uses: storeLocalBounds(); push(); <updates>; pop();
\* restoreLocalBounds().  Between a store and its push, and between a pop and
\* its restore, nothing else is called.
BetweenCalls == last.op \notin {"storeLocalBounds", "pop"}

SmtCoreVars ==
    << stack, impliedValidSplitsAtRoot, needToSplit, constraintForSplitting,
       stateId, constraintToViolationCount, numRejectedPhasePatternProposal,
       active, calls, result >>

BMSet(b) ==
    /\ BetweenCalls
    /\ Len(tightenings) < MaxLog
    /\ LET s1 == IF b.type = LB THEN BMSetLowerBound(State, b.variable, b.value)
                                ELSE BMSetUpperBound(State, b.variable, b.value)
       IN  /\ Install(s1)
           /\ last' = [op |-> IF b.type = LB THEN "setLowerBound" ELSE "setUpperBound",
                       ret |-> s1.tightenings # tightenings, arg |-> b]
    /\ popped' = << >>
    /\ drained' = << >>
    /\ UNCHANGED << result, pushed >>

BMStore ==
    /\ BetweenCalls
    /\ Len(context) < MaxLevel
    /\ Install(BMStoreLocalBounds(State))
    /\ last' = [op |-> "storeLocalBounds", ret |-> FALSE]
    /\ popped' = << >>
    /\ drained' = << >>
    /\ UNCHANGED << result, pushed >>

BMPush ==
    /\ last.op = "storeLocalBounds"
    /\ Install(ContextPush(State))
    /\ pushed' = Append(pushed,
                    [ lower |-> lowerBounds, upper |-> upperBounds,
                      explanations |-> explanations ])
    /\ last' = [op |-> "push", ret |-> FALSE]
    /\ popped' = << >>
    /\ drained' = << >>
    /\ UNCHANGED result

BMPop ==
    /\ last.op # "storeLocalBounds"
    /\ context # << >>
    /\ Install(ContextPop(State))
    /\ popped' = << [ at |-> pushed[Len(pushed)],
                      lowerAtPop |-> lowerBounds, upperAtPop |-> upperBounds,
                      explanationsAtPop |-> explanations ] >>
    /\ pushed' = SubSeq(pushed, 1, Len(pushed) - 1)
    /\ last' = [op |-> "pop", ret |-> FALSE]
    /\ drained' = << >>
    /\ UNCHANGED result

BMRestore ==
    /\ last.op = "pop"
    /\ Install(BMRestoreLocalBounds(State))
    /\ last' = [op |-> "restoreLocalBounds", ret |-> FALSE]
    /\ drained' = << >>
    /\ UNCHANGED << result, pushed, popped >>

BMGetTightenings ==
    /\ BetweenCalls
    /\ LET r == BMDrainTightenings(State)
       IN  /\ drained' = r.out
           /\ Install(r.s)
    /\ last' = [op |-> "getTightenings", ret |-> FALSE]
    /\ popped' = << >>
    /\ UNCHANGED << result, pushed >>

NextBM ==
    \/ \E b \in BMInputs : BMSet(b)
    \/ BMStore
    \/ BMPush
    \/ BMPop
    \/ BMRestore
    \/ BMGetTightenings

SpecBM == Init /\ [][NextBM]_vars

\* ------------------------ the explanations of the bounds (SpecExplainer)
\* The bound manager with its explainer, driven as Test_BoundManager.h
\* drives it, inside the store / push ... pop / restore nesting of SpecBM.
ExplainerBounds == { Tightening(0, 1, LB) }

\* sparse vectors over the rows: (row, coefficient) entries
ExplanationInputs ==
    { << [index |-> 0, value |-> 1], [index |-> 1, value |-> 1] >>,
      << [index |-> 1, value |-> 2] >> }

ExplainedBounds == { << 0, LB >>, << 1, UB >> }

InitializeBoundExplainer ==
    /\ ~HasExplainer(State)
    /\ Install(BMInitializeBoundExplainer(State))
    /\ last' = [op |-> "initializeBoundExplainer", ret |-> FALSE]
    /\ UNCHANGED << result, drained, pushed, popped >>

SetExplanation(explanation, variable, kind) ==
    /\ HasExplainer(State)
    /\ BetweenCalls
    /\ Install(BMSetExplanation(State, explanation, variable, kind))
    /\ last' = [op |-> "setExplanation", ret |-> FALSE,
                explanation |-> explanation, variable |-> variable, kind |-> kind]
    /\ popped' = << >>
    /\ UNCHANGED << result, drained, pushed >>

ResetExplanation(variable, kind) ==
    /\ HasExplainer(State)
    /\ BetweenCalls
    /\ Install(BMResetExplanation(State, variable, kind))
    /\ last' = [op |-> "resetExplanation", ret |-> FALSE,
                variable |-> variable, kind |-> kind]
    /\ popped' = << >>
    /\ UNCHANGED << result, drained, pushed >>

ExplainerSetBound(b) ==
    /\ HasExplainer(State)
    /\ BMSet(b)

ExplainerStore ==
    /\ HasExplainer(State)
    /\ BMStore

NextExplainer ==
    \/ InitializeBoundExplainer
    \/ \E e \in ExplanationInputs, p \in ExplainedBounds : SetExplanation(e, p[1], p[2])
    \/ \E p \in ExplainedBounds : ResetExplanation(p[1], p[2])
    \/ \E b \in ExplainerBounds : ExplainerSetBound(b)
    \/ ExplainerStore
    \/ BMPush
    \/ BMPop
    \/ BMRestore

SpecExplainer == Init /\ [][NextExplainer]_vars

\* ------------------------- the bound manager being set up (SpecRegister)
\* A manager is constructed empty, initialized once with some number of
\* variables, and then grows by registerNewVariable() while bounds are set.
InitRegister ==
    /\ stack = << >>
    /\ impliedValidSplitsAtRoot = << >>
    /\ needToSplit = FALSE
    /\ constraintForSplitting = NULL
    /\ stateId = 0
    /\ constraintToViolationCount = [c \in Constraints |-> 0]
    /\ numRejectedPhasePatternProposal = 0
    /\ context = << >>
    /\ lowerBounds = << >>
    /\ upperBounds = << >>
    /\ storedLower = << >>
    /\ storedUpper = << >>
    /\ consistentBounds = TRUE
    /\ inconsistentVariable = 0
    /\ tightenings = << >>
    /\ active = [c \in Constraints |-> TRUE]
    /\ calls = << >>
    /\ result = << >>
    /\ drained = << >>
    /\ pushed = << >>
    /\ popped = << >>
    /\ last = [op |-> "init", ret |-> FALSE]
    /\ _tableau = NULL
    /\ unsatCertificate = NoCertificate
    /\ explanations = NoExplainer
    /\ _debuggingSolution = NoSolution
    /\ error = NoError
    /\ smtState = NoSmtState

RegisterInputs == BMInputs \cup { Tightening(2, 0, LB), Tightening(2, 1, UB) }

Initialize(numberOfVariables) ==
    /\ last.op = "init"
    /\ Install(BMInitialize(State, numberOfVariables))
    /\ last' = [op |-> "initialize", ret |-> FALSE, arg |-> numberOfVariables]
    /\ UNCHANGED << result, drained, pushed, popped >>

RegisterNewVariable ==
    /\ last.op # "init"
    /\ BMGetNumberOfVariables(State) < MaxVariables
    /\ Install(BMRegisterNewVariable(State))
    /\ last' = [op |-> "registerNewVariable", ret |-> BMGetNumberOfVariables(State)]
    /\ drained' = << >>
    /\ UNCHANGED << result, pushed, popped >>

RegisterSet(b) ==
    /\ last.op # "init"
    /\ b.variable \in DOMAIN lowerBounds
    /\ BMSet(b)

RegisterGetTightenings ==
    /\ last.op # "init"
    /\ BMGetTightenings

NextRegister ==
    \/ \E n \in 0..MaxVariables : Initialize(n)
    \/ RegisterNewVariable
    \/ \E b \in RegisterInputs : RegisterSet(b)
    \/ RegisterGetTightenings

SpecRegister == InitRegister /\ [][NextRegister]_vars

\* --------------------------------- the row bound tightener (SpecTightener)
\* The tableaux the tightener is run on; three variables x0, x1, x2.
\* Coefficient 4 is 1.0, 2 is 0.5 (the minimal coefficient), 1 is 0.25.
Entry(index, value) == [index |-> index, value |-> value]

MakeTableau(n, A, b, basic, nonBasic, invB) ==
    LET t == [ n |-> n, m |-> Len(A), A |-> A, b |-> b,
               basic |-> basic, nonBasic |-> nonBasic, invB |-> invB ]
    IN  [ n |-> t.n, m |-> t.m, A |-> A, b |-> b, basic |-> basic,
          nonBasic |-> nonBasic, invB |-> invB, pivotRow |-> ExplicitRows(t)[1] ]

\* x0 + x1 + x2 = b, x2 basic
SumTableau(b) ==
    MakeTableau(3, << << Entry(0, 4), Entry(1, 4), Entry(2, 4) >> >>, << b >>,
                << 2 >>, << 0, 1 >>, << << 4 >> >>)

\* x0 - x1 = 0 and x0 - x1 + x2 = 4, x1 and x2 basic: with x2 = 0 every
\* pass narrows x0 and x1 by one step
NarrowingTableau ==
    MakeTableau(3, << << Entry(0, 4), Entry(1, 0 - 4) >>,
                   << Entry(0, 4), Entry(1, 0 - 4), Entry(2, 4) >> >>,
                << 0, 4 >>, << 1, 2 >>, << 0 >>,
                << << 0 - 4, 0 >>, << 0 - 4, 4 >> >>)

\* 0.25 x0 + 0.25 x1 + 0.25 x2 = 2, x2 basic
SmallRowTableau ==
    MakeTableau(3, << << Entry(0, 1), Entry(1, 1), Entry(2, 1) >> >>, << 2 >>,
                << 2 >>, << 0, 1 >>, << << 16 >> >>)

\* 0.25 x0 + 0.25 x1 - x2 = 0, x2 basic: x2 = 0.25 x0 + 0.25 x1
SmallInvertedRowTableau ==
    MakeTableau(3, << << Entry(0, 1), Entry(1, 1), Entry(2, 0 - 4) >> >>, << 0 >>,
                << 2 >>, << 0, 1 >>, << << 0 - 4 >> >>)

\* 0.5 x0 + 0.5 x1 - x2 = 0, x2 basic: x2 = 0.5 x0 + 0.5 x1, the coefficients
\* of x0 and x1 exactly at the threshold
ThresholdRowTableau ==
    MakeTableau(3, << << Entry(0, MinimalCoefficientForTightening),
                         Entry(1, MinimalCoefficientForTightening),
                         Entry(2, 0 - 4) >> >>, << 0 >>,
                << 2 >>, << 0, 1 >>, << << 0 - 4 >> >>)

\* x2 = x1, x3 = x0 + x1, x4 = x0, with x2, x3, x4 basic: what the last row
\* learns about x0 reaches x1 in the next pass and x2 in the one after
ChainTableau ==
    MakeTableau(5, << << Entry(1, 0 - 4), Entry(2, 4) >>,
                      << Entry(0, 0 - 4), Entry(1, 0 - 4), Entry(3, 4) >>,
                      << Entry(0, 0 - 4), Entry(4, 4) >> >>,
                << 0, 0, 0 >>, << 2, 3, 4 >>, << 0, 1 >>,
                << << 4, 0, 0 >>, << 0, 4, 0 >>, << 0, 0, 4 >> >>)

Tableaux ==
    { SumTableau(8), SumTableau(12), SumTableau(12 + Epsilon), SumTableau(16),
      NarrowingTableau, SmallRowTableau, SmallInvertedRowTableau,
      ThresholdRowTableau }

\* The bounds the tightener starts from.
Bounds(l0, u0, l1, u1, l2, u2) ==
    [ lower |-> (0 :> l0) @@ (1 :> l1) @@ (2 :> l2),
      upper |-> (0 :> u0) @@ (1 :> u1) @@ (2 :> u2) ]

StartBounds ==
    { Bounds(0, 4, 0, 4, 0, 4),
      Bounds(0, 32, 0, 32, 0, 0),
      Bounds(0, 4, 0, PosInf, NegInf, PosInf) }

ChainBounds ==
    [ lower |-> (0 :> 0) @@ (1 :> 0) @@ (2 :> 0) @@ (3 :> 0) @@ (4 :> 32),
      upper |-> (0 :> 100) @@ (1 :> 100) @@ (2 :> 100) @@ (3 :> 40) @@ (4 :> 40) ]

\* x1 = x0 and x2 = x0, with x1 and x2 basic
SharedTableau ==
    MakeTableau(3, << << Entry(0, 0 - 4), Entry(1, 4) >>,
                      << Entry(0, 0 - 4), Entry(2, 4) >> >>,
                << 0, 0 >>, << 1, 2 >>, << 0 >>,
                << << 4, 0 >>, << 0, 4 >> >>)

\* x1 = 0 and x2 free: the first row of SharedTableau brings x0 down to x1,
\* and the second row derives x2 from it
FreeBasicBounds == Bounds(0, 32, 0, 0, NegInf, PosInf)

\* The tableau the tightener is constructed on, and the bounds it starts from.
Starts ==
    { [tableau |-> t, bounds |-> start] : t \in Tableaux, start \in StartBounds }
        \cup { [tableau |-> ChainTableau, bounds |-> ChainBounds],
                [tableau |-> SharedTableau, bounds |-> FreeBasicBounds] }

\* The bounds the engine sets between two calls of the tightener.
TightenerInputs == { Tightening(0, 4, LB), Tightening(1, 0, UB) }

InitTightener ==
    /\ stack = << >>
    /\ impliedValidSplitsAtRoot = << >>
    /\ needToSplit = FALSE
    /\ constraintForSplitting = NULL
    /\ stateId = 0
    /\ constraintToViolationCount = [c \in Constraints |-> 0]
    /\ numRejectedPhasePatternProposal = 0
    /\ context = << >>
    /\ \E start \in Starts :
          /\ _tableau = start.tableau
          /\ lowerBounds = start.bounds.lower
          /\ upperBounds = start.bounds.upper
          /\ storedLower = start.bounds.lower
          /\ storedUpper = start.bounds.upper
    /\ consistentBounds = TRUE
    /\ inconsistentVariable = 0
    /\ tightenings = << >>
    /\ active = [c \in Constraints |-> TRUE]
    /\ calls = << >>
    /\ result = << >>
    /\ drained = << >>
    /\ pushed = << >>
    /\ popped = << >>
    /\ last = [op |-> "init", ret |-> FALSE]
    /\ unsatCertificate = NoCertificate
    /\ explanations = NoExplainer
    /\ _debuggingSolution = NoSolution
    /\ error = NoError
    /\ smtState = NoSmtState

ExamineOps ==
    { "examineConstraintMatrix", "examineInvertedBasisMatrix",
      "examineImplicitInvertedBasisMatrix", "examinePivotRow" }

\* The engine calls the tightener on consistent bounds and drains the log
\* after the call; the same call may be repeated right away.
TightenerReady(op, untilSaturation) ==
    /\ consistentBounds
    /\ \/ tightenings = << >>
       \/ /\ last.op = op
          /\ last.untilSaturation = untilSaturation

\* What a call of the tightener leaves: the bounds, and for the claims what
\* it was called with and how it went; previous is the passes of the call
\* before it when that was the same call, with nothing in between.
Examined(op, r, untilSaturation) ==
    /\ Install(r.s)
    /\ last' = [ op |-> op, ret |-> FALSE, untilSaturation |-> untilSaturation,
                 passes |-> r.passes, thrown |-> r.thrown, rows |-> r.rows,
                 invB |-> IF "invB" \in DOMAIN r THEN r.invB ELSE << >>,
                 previous |-> IF last.op = op /\ last.untilSaturation = untilSaturation
                              THEN last.passes ELSE << >> ]
    /\ drained' = << >>
    /\ UNCHANGED << result, pushed, popped >>

CallExamineConstraintMatrix(untilSaturation) ==
    /\ TightenerReady("examineConstraintMatrix", untilSaturation)
    /\ Examined("examineConstraintMatrix",
                ExamineConstraintMatrix(State, _tableau, untilSaturation),
                untilSaturation)

CallExamineInvertedBasisMatrix(untilSaturation) ==
    /\ TightenerReady("examineInvertedBasisMatrix", untilSaturation)
    /\ Examined("examineInvertedBasisMatrix",
                ExamineInvertedBasisMatrix(State, _tableau, untilSaturation),
                untilSaturation)

\* a call of examineInvertedBasisMatrix that an exception other than
\* InfeasibleQuery cuts short
CallExamineInvertedBasisMatrixInterrupted ==
    /\ consistentBounds
    /\ tightenings = << >>
    /\ Examined("examineInvertedBasisMatrix (interrupted)",
                ExamineInvertedBasisMatrixInterrupted(State), FALSE)

CallExamineImplicitInvertedBasisMatrix(untilSaturation) ==
    /\ TightenerReady("examineImplicitInvertedBasisMatrix", untilSaturation)
    /\ Examined("examineImplicitInvertedBasisMatrix",
                ExamineImplicitInvertedBasisMatrix(State, _tableau, untilSaturation),
                untilSaturation)

CallExaminePivotRow ==
    /\ TightenerReady("examinePivotRow", FALSE)
    /\ Examined("examinePivotRow", ExaminePivotRow(State, _tableau), FALSE)

\* getRowTightenings( tightenings )
CallGetRowTightenings ==
    /\ tightenings # << >>
    /\ LET r == BMDrainTightenings(State)
       IN  /\ drained' = r.out
           /\ Install(r.s)
    /\ last' = [op |-> "getRowTightenings", ret |-> FALSE]
    /\ UNCHANGED << result, pushed, popped >>

TightenerSet(b) ==
    /\ consistentBounds
    /\ tightenings = << >>
    /\ BMSet(b)

NextTightener ==
    \/ \E untilSaturation \in BOOLEAN : CallExamineConstraintMatrix(untilSaturation)
    \/ \E untilSaturation \in BOOLEAN : CallExamineInvertedBasisMatrix(untilSaturation)
    \/ CallExamineInvertedBasisMatrixInterrupted
    \/ \E untilSaturation \in BOOLEAN :
          CallExamineImplicitInvertedBasisMatrix(untilSaturation)
    \/ CallExaminePivotRow
    \/ CallGetRowTightenings
    \/ \E b \in TightenerInputs : TightenerSet(b)

SpecTightener == InitTightener /\ [][NextTightener]_vars

\* ------------------------------------------------------ helpers of the claims
ProgramVars ==
    << stack, impliedValidSplitsAtRoot, needToSplit, constraintForSplitting,
       stateId, constraintToViolationCount, numRejectedPhasePatternProposal,
       context, lowerBounds, upperBounds, storedLower, storedUpper,
       consistentBounds, inconsistentVariable, tightenings, active >>

CountCalls(log, f) == Cardinality({ i \in DOMAIN log : log[i].f = f })

LastCall(log, f) ==
    IF \E i \in DOMAIN log : log[i].f = f
    THEN CHOOSE i \in DOMAIN log : log[i].f = f /\ \A j \in DOMAIN log : log[j].f = f => j <= i
    ELSE 0

RECURSIVE NumAlternatives(_)
NumAlternatives(stk) ==
    IF stk = << >> THEN 0 ELSE Len(Head(stk).alternativeSplits) + NumAlternatives(Tail(stk))

IsPopSplitStep == last'.op = "popSplit"

\* C3: popSplit returns false exactly when the stack is empty on return; on
\* an empty stack it returns false at once and changes nothing; from a
\* non-empty stack it returns false only after every frame was deleted and
\* every remaining alternative was applied and found inconsistent.
C3_PopSplitFalseIffEmpty ==
    [][ IsPopSplitStep =>
          /\ (last'.ret = FALSE) <=> (stack' = << >>)
          /\ stack = << >> => (~last'.ret /\ calls' = << >> /\ UNCHANGED ProgramVars)
          /\ (stack # << >> /\ ~last'.ret) =>
                /\ CountCalls(calls', "pop") = Len(stack) + NumAlternatives(stack)
                /\ CountCalls(calls', "applySplit") = NumAlternatives(stack)
                /\ CountCalls(calls', "consistentBounds=false") = NumAlternatives(stack)
                /\ CountCalls(calls', "consistentBounds=true") = 0
      ]_vars

\* C3 witness: popSplit returned false after trying an alternative.
C3_Witness ==
    /\ last.op = "popSplit" /\ ~last.ret /\ stack = << >>
    /\ CountCalls(calls, "applySplit") >= 1

\* C4: when popSplit returns true the engine was consistent after the last
\* applied case, the top frame's active case is the alternative that was at
\* the head of its remaining cases and has been removed from them, its
\* implied splits were cleared before the case was applied, and every
\* application found inconsistent was followed by a further attempt.
C4_PopSplitTrue ==
    [][ (IsPopSplitStep /\ last'.ret) =>
          LET n  == Len(stack')
              ia == LastCall(calls', "applySplit")
              ic == LastCall(calls', "impliedValidSplits.clear")
          IN  /\ n >= 1 /\ n <= Len(stack)
              /\ consistentBounds'
              /\ calls'[Len(calls')].f = "consistentBounds=true"
              /\ CountCalls(calls', "consistentBounds=true") = 1
              /\ CountCalls(calls', "applySplit")
                    = CountCalls(calls', "consistentBounds=false") + 1
              /\ \E j \in 1..Len(stack[n].alternativeSplits) :
                    /\ stack'[n].activeSplit = stack[n].alternativeSplits[j]
                    /\ stack'[n].alternativeSplits
                          = SubSeq(stack[n].alternativeSplits, j + 1,
                                   Len(stack[n].alternativeSplits))
              /\ stack'[n].impliedValidSplits = << >>
              /\ 0 < ic /\ ic < ia
              /\ calls'[ia].split = stack'[n].activeSplit
      ]_vars

\* C4 witness: popSplit returned true after at least one inconsistent attempt.
C4_Witness ==
    /\ last.op = "popSplit" /\ last.ret
    /\ CountCalls(calls, "consistentBounds=false") >= 1

\* The bounds of a snapshot tightened by one case alone.
SnapshotPlusCase(es, split) ==
    ApplyBounds([State EXCEPT !.lowerBounds = es.lower, !.upperBounds = es.upper,
                              !.consistentBounds = TRUE], split)

SplitsOf(seq) == { seq[i] : i \in DOMAIN seq }

\* C5: when the top frame still has an alternative and popSplit moves that
\* frame to it, the engine is back at the frame's pre-split snapshot
\* tightened by the new case alone, and allSplitsSoFar ends with the new
\* active case and holds no abandoned case of the frame.
C5_PopSplitRestoresSnapshot ==
    [][ (IsPopSplitStep /\ last'.ret /\ stack # << >>
            /\ stack[Len(stack)].alternativeSplits # << >>
            /\ Len(stack') = Len(stack)) =>
          LET n   == Len(stack')
              es  == stack'[n].engineState
              exp == SnapshotPlusCase(es, stack'[n].activeSplit)
              all == SmtCoreAllSplitsSoFar([State EXCEPT !.stack = stack'], << >>)
          IN  /\ es = stack[n].engineState
              /\ lowerBounds' = exp.lowerBounds
              /\ upperBounds' = exp.upperBounds
              /\ active' = es.active
              /\ all = impliedValidSplitsAtRoot
                         \o StackSplits(SubSeq(stack, 1, n - 1))
                         \o << stack'[n].activeSplit >>
              /\ stack[n].activeSplit \notin SplitsOf(all)
              /\ \A a \in SplitsOf(stack[n].alternativeSplits) :
                    a # stack'[n].activeSplit => a \notin SplitsOf(all)
      ]_vars

\* C5 witness: the frame of constraint 1 has left {x0 >= 0} for {x0 <= 0} at
\* the first attempt; the lower bound 0 of the abandoned case is gone.
C5_Witness ==
    /\ last.op = "popSplit" /\ last.ret /\ Len(calls) = 8
    /\ Len(stack) = 1
    /\ stack[1].activeSplit = CaseSplitsOf(1)[2]
    /\ upperBounds[0] = 0 /\ lowerBounds[0] = NegInf

\* The position in allSplitsSoFar before which frame i starts.
RECURSIVE FrameOffset(_, _)
FrameOffset(stk, i) ==
    IF i = 1 THEN 0
    ELSE FrameOffset(stk, i - 1) + 1 + Len(stk[i - 1].impliedValidSplits)

\* C6: allSplitsSoFar returns the root-level implied splits in insertion
\* order, then for each frame from bottom to top its active case followed by
\* its implied splits, nothing else (whatever the out-list held), and
\* changes no state.
C6_AllSplitsSoFar ==
    [][ last'.op = "allSplitsSoFar" =>
          LET r == Len(impliedValidSplitsAtRoot)
          IN  /\ UNCHANGED ProgramVars
              /\ Len(result') = r + FrameOffset(stack, Len(stack) + 1)
              /\ \A k \in 1..r : result'[k] = impliedValidSplitsAtRoot[k]
              /\ \A i \in 1..Len(stack) :
                    /\ result'[r + FrameOffset(stack, i) + 1] = stack[i].activeSplit
                    /\ \A k \in 1..Len(stack[i].impliedValidSplits) :
                          result'[r + FrameOffset(stack, i) + 1 + k]
                             = stack[i].impliedValidSplits[k]
      ]_vars

\* C6 witness: a result made of a root-level split, two active cases and a
\* split implied on the lower frame.
C6_Witness ==
    /\ last.op = "allSplitsSoFar"
    /\ Len(impliedValidSplitsAtRoot) = 1 /\ Len(stack) = 2
    /\ Len(stack[1].impliedValidSplits) = 1
    /\ Len(result) = 4

\* C7: recordImpliedValidSplit appends its argument to the implied splits
\* of the topmost frame, or to the root list when the stack is empty, and
\* changes nothing else; popSplit leaves an advanced frame without implied
\* splits and the frames below it as they were; performSplit and popSplit
\* keep the root list.
C7_RecordImpliedValidSplit ==
    [][ /\ last'.op = "recordImpliedValidSplit" =>
             \E split \in ImpliedInputs :
                /\ IF stack = << >>
                   THEN /\ impliedValidSplitsAtRoot' = Append(impliedValidSplitsAtRoot, split)
                        /\ stack' = stack
                   ELSE /\ impliedValidSplitsAtRoot' = impliedValidSplitsAtRoot
                        /\ stack' = [stack EXCEPT ![Len(stack)].impliedValidSplits
                                                      = Append(@, split)]
                /\ UNCHANGED << needToSplit, constraintForSplitting, stateId,
                                constraintToViolationCount,
                                numRejectedPhasePatternProposal, context,
                                lowerBounds, upperBounds, storedLower, storedUpper,
                                consistentBounds, inconsistentVariable,
                                tightenings, active >>
                /\ calls' = << >>
        /\ last'.op \in {"popSplit", "performSplit"} =>
                impliedValidSplitsAtRoot' = impliedValidSplitsAtRoot
        /\ IsPopSplitStep =>
                /\ Len(stack') <= Len(stack)
                /\ \A i \in 1..Len(stack') :
                      IF i = Len(stack') /\ calls' # << >>
                      THEN stack'[i].impliedValidSplits = << >>
                      ELSE stack'[i] = stack[i]
      ]_vars

\* C7 witness: a second split has been recorded on the top frame.
C7_Witness ==
    /\ last.op = "recordImpliedValidSplit"
    /\ stack # << >>
    /\ Len(stack[Len(stack)].impliedValidSplits) = 2

\* C8: performSplit on an active candidate with cases c0..ck deactivates
\* it, takes one bounds-only snapshot, pushes one context level, applies c0
\* and appends one frame (c0, [c1..ck], no implied splits, the snapshot);
\* needToSplit and the candidate are cleared.
C8_PerformSplit ==
    [][ (last'.op = "performSplit" /\ needToSplit /\ constraintForSplitting # NULL
            /\ active[constraintForSplitting]) =>
          LET c == constraintForSplitting
              cases == CaseSplitsOf(c)
              snap == [ stateId |-> stateId, level |-> "STORE_BOUNDS_ONLY",
                        lower |-> lowerBounds, upper |-> upperBounds,
                        active |-> [active EXCEPT ![c] = FALSE] ]
          IN  /\ Len(cases) >= 2
              /\ active' = [active EXCEPT ![c] = FALSE]
              /\ calls' = << ECall("setActiveConstraint(false)"),
                             ECall("storeState(STORE_BOUNDS_ONLY)"),
                             ECall("preContextPushHook"),
                             ECall("push"),
                             ECallSplit("applySplit", cases[1]) >>
              /\ Len(context') = Len(context) + 1
              /\ stack' = Append(stack,
                             [ activeSplit |-> cases[1],
                               alternativeSplits |-> [i \in 1..(Len(cases) - 1) |-> cases[i + 1]],
                               impliedValidSplits |-> << >>,
                               engineState |-> snap ])
              /\ ~needToSplit'
              /\ constraintForSplitting' = NULL
      ]_vars

\* C8 witness: the three-case constraint has been split.
C8_Witness ==
    /\ last.op = "performSplit" /\ last.ret
    /\ stack # << >>
    /\ stack[Len(stack)].activeSplit = CaseSplitsOf(2)[1]
    /\ Len(stack[Len(stack)].alternativeSplits) = 2

\* C9: performSplit on a candidate that has become inactive creates no
\* frame, pushes no context level, takes no snapshot, applies no case and
\* leaves the active flags; it clears needToSplit and the candidate and
\* resets the candidate's violation count.
C9_PerformSplitInactive ==
    [][ (last'.op = "performSplit" /\ needToSplit /\ constraintForSplitting # NULL
            /\ ~active[constraintForSplitting]) =>
          /\ UNCHANGED << stack, impliedValidSplitsAtRoot, stateId, context,
                          lowerBounds, upperBounds, storedLower, storedUpper,
                          consistentBounds, inconsistentVariable, tightenings,
                          active >>
          /\ calls' = << >>
          /\ ~needToSplit'
          /\ constraintForSplitting' = NULL
          /\ constraintToViolationCount'
                = [constraintToViolationCount EXCEPT ![constraintForSplitting] = 0]
      ]_vars

\* C9 witness: performSplit has returned without splitting.
C9_Witness ==
    /\ last.op = "performSplit" /\ ~last.ret
    /\ ~needToSplit /\ constraintForSplitting = NULL

\* C2: after storeLocalBounds(); push(); <updates>; pop(); restoreLocalBounds()
\* every variable has the (lower, upper) pair it had at the matching
\* store/push, at every nesting depth; a level whose push saw (-inf, +inf)
\* gives (-inf, +inf) back.
C2_StoreRestoreRoundTrip ==
    (last.op = "restoreLocalBounds" /\ popped # << >>) =>
        /\ lowerBounds = popped[1].at.lower
        /\ upperBounds = popped[1].at.upper
        /\ (context = << >> /\ \A v \in Vars : popped[1].at.lower[v] = NegInf
                                              /\ popped[1].at.upper[v] = PosInf)
              => \A v \in Vars : lowerBounds[v] = NegInf /\ upperBounds[v] = PosInf

\* C2 witness: a restore at depth one has undone the bounds set at depth
\* two and brought back bounds that were set at depth one.
C2_Witness ==
    /\ last.op = "restoreLocalBounds" /\ popped # << >>
    /\ Len(context) = 1
    /\ popped[1].lowerAtPop # lowerBounds
    /\ popped[1].upperAtPop # upperBounds
    /\ lowerBounds[0] # NegInf

C13_GetTightenings ==
    [][ /\ last'.op = "getTightenings" =>
            /\ drained' = tightenings
            /\ tightenings' = << >>
            /\ UNCHANGED << lowerBounds, upperBounds, consistentBounds >>
            /\ last.op = "getTightenings" => drained' = << >>
        /\ last'.op \in {"setLowerBound", "setUpperBound"} =>
            tightenings' =
                IF << lowerBounds', upperBounds' >> # << lowerBounds, upperBounds >>
                THEN Append(tightenings, last'.arg)
                ELSE tightenings
        /\ last'.op \notin {"getTightenings", "setLowerBound", "setUpperBound"} =>
            tightenings' = tightenings
      ]_vars

\* C13 witness: a drain has handed out two accepted changes of the same
\* variable, in the order they were accepted.
C13_Witness ==
    /\ last.op = "getTightenings"
    /\ Len(drained) = 2
    /\ drained[1] = Tightening(0, 0, LB)
    /\ drained[2] = Tightening(0, 0, UB)
    /\ tightenings = << >>

\* C14: initialize(N) leaves exactly N variables, each with bounds
\* (-inf, +inf), in a manager that is not infeasible; registerNewVariable()
\* adds exactly one variable, with bounds (-inf, +inf), and leaves the bounds
\* of the variables already there as they were.
C14_InitializeAndRegister ==
    [][ /\ last'.op = "initialize" =>
            /\ BMGetNumberOfVariables(State') = last'.arg
            /\ DOMAIN lowerBounds' = 0 .. (last'.arg - 1)
            /\ DOMAIN upperBounds' = DOMAIN lowerBounds'
            /\ \A v \in DOMAIN lowerBounds' :
                   lowerBounds'[v] = NegInf /\ upperBounds'[v] = PosInf
            /\ consistentBounds'
        /\ last'.op = "registerNewVariable" =>
            LET n == BMGetNumberOfVariables(State)
            IN  /\ BMGetNumberOfVariables(State') = n + 1
                /\ DOMAIN lowerBounds' = DOMAIN lowerBounds \cup {n}
                /\ DOMAIN upperBounds' = DOMAIN lowerBounds'
                /\ lowerBounds'[n] = NegInf /\ upperBounds'[n] = PosInf
                /\ \A v \in DOMAIN lowerBounds :
                       lowerBounds'[v] = lowerBounds[v] /\ upperBounds'[v] = upperBounds[v]
      ]_vars

\* C14 witness: a variable has been registered next to two variables whose
\* bounds had been set.
C14_Witness ==
    /\ last.op = "registerNewVariable"
    /\ BMGetNumberOfVariables(State) = 3
    /\ lowerBounds[0] # NegInf
    /\ upperBounds[1] # PosInf
    /\ lowerBounds[2] = NegInf /\ upperBounds[2] = PosInf

\* ------------------------------------------------------------------ C15
Drivers ==
    { "examineConstraintMatrix", "examineInvertedBasisMatrix",
      "examineImplicitInvertedBasisMatrix" }

IterationCap(untilSaturation) == IF untilSaturation THEN SaturationIterations ELSE 1

C15_WitnessInverted ==
    /\ last.op = "examineInvertedBasisMatrix"
    /\ last.untilSaturation
    /\ ~last.thrown
    /\ Len(last.passes) = SaturationIterations
    /\ \A k \in 1..SaturationIterations : last.passes[k] > 0

C15_WitnessSaturated ==
    /\ last.op \in Drivers
    /\ last.untilSaturation
    /\ ~last.thrown
    /\ Len(last.passes) = 2
    /\ last.passes[1] > 0
    /\ last.passes[2] = 0

\* ------------------------------------------------------------------ C16
\* A saturating driver call made right after the same call, nothing in between.
IsRepeatedSaturatingCall ==
    /\ last.op \in Drivers
    /\ last.untilSaturation
    /\ last'.op = last.op
    /\ last'.untilSaturation

Sum(passes) == SumOver(passes, Len(passes))

RECURSIVE RestBounds(_, _, _)
RestBounds(sparseRow, k, j) ==
    IF j = 0 THEN [lb |-> 0, ub |-> 0]
    ELSE LET rest == RestBounds(sparseRow, k, j - 1)
             c == sparseRow[j].value
             x == sparseRow[j].index
             lo == FloatTimes(c, IF c > 0 THEN lowerBounds[x] ELSE upperBounds[x])
             hi == FloatTimes(c, IF c > 0 THEN upperBounds[x] ELSE lowerBounds[x])
         IN  IF j = k THEN rest
             ELSE [lb |-> FloatAdd(rest.lb, lo), ub |-> FloatAdd(rest.ub, hi)]

\* (b - restUB) / c and (b - restLB) / c, the two swapped for a negative c.
RowFormula(tableau, row, k) ==
    LET sparseRow == tableau.A[row]
        c == sparseRow[k].value
        rest == RestBounds(sparseRow, k, Len(sparseRow))
        fromUb == FloatDiv(FloatSub(tableau.b[row], rest.ub), c)
        fromLb == FloatDiv(FloatSub(tableau.b[row], rest.lb), c)
    IN  IF c > 0 THEN [lb |-> fromUb, ub |-> fromLb]
                 ELSE [lb |-> fromLb, ub |-> fromUb]

\* What tightenOnSingleConstraintRow hands to registerTighterLowerBound and
\* registerTighterUpperBound for the k-th entry of the row.
RowProposal(tableau, row, k) ==
    LET sparseRow == tableau.A[row]
        Proposed(sc) ==
            ConstraintEntryBounds(sc,
                ConstraintRowAux(sc, 0, tableau.n,
                                 [lb |-> tableau.b[row], ub |-> tableau.b[row]]),
                sparseRow[k])
    IN  Proposed(ConstraintRowScratch(State, tableau.n, sparseRow))

\* The entries of the rows of the constraint matrix that are not passed over.
RowEntries(tableau) ==
    { e \in (1..tableau.m) \X (1..tableau.n) :
        /\ e[2] <= Len(tableau.A[e[1]])
        /\ ~SmallCoefficient(tableau.A[e[1]][e[2]].value) }

\* The values of xk that the row allows when the other entries sit at an end
\* of their intervals (an infinite end is left out).
RECURSIVE RowSums(_, _, _)
RowSums(sparseRow, k, j) ==
    IF j = 0 THEN {0}
    ELSE IF j = k THEN RowSums(sparseRow, k, j - 1)
    ELSE LET c == sparseRow[j].value
             x == sparseRow[j].index
             ends == {lowerBounds[x], upperBounds[x]} \ {NegInf, PosInf}
         IN  { sum + FloatTimes(c, v) : sum \in RowSums(sparseRow, k, j - 1), v \in ends }

RowPoints(tableau, row, k) ==
    LET sparseRow == tableau.A[row]
        x == sparseRow[k].index
    IN  { v \in { FloatDiv(tableau.b[row] - sum, sparseRow[k].value) :
                     sum \in RowSums(sparseRow, k, Len(sparseRow)) } :
            lowerBounds[x] <= v /\ v <= upperBounds[x] }

Accepted(proposal, old, type) ==
    IF type = LB THEN (IF FloatGt(proposal, old) THEN proposal ELSE old)
                 ELSE (IF FloatLt(proposal, old) THEN proposal ELSE old)

C17_WitnessNoChange ==
    /\ last.op = "examineConstraintMatrix"
    /\ _tableau = SumTableau(2 * CoefficientOne)
    /\ last.passes = << 0 >>
    /\ \A x \in 0..2 : lowerBounds[x] = 0 /\ upperBounds[x] = CoefficientOne

VariablesOfRow(op, r) ==
    IF op = "examineConstraintMatrix"
    THEN { _tableau.A[r][k].index : k \in DOMAIN _tableau.A[r] }
    ELSE LET rows == IF op = "examineImplicitInvertedBasisMatrix"
                     THEN ImplicitRows(_tableau) ELSE ExplicitRows(_tableau)
         IN  {rows[r].lhs} \cup { rows[r].row[k].var : k \in DOMAIN rows[r].row }

RowsPerPass(op) == IF op = "examinePivotRow" THEN 1 ELSE _tableau.m

\* C18: a call of the tightener is left by InfeasibleQueryException exactly
\* when it leaves a variable whose lower bound exceeds its upper bound by
\* more than the comparison tolerance.  The rows are gone through in order,
\* pass after pass; a call that returns went through every row of every
\* pass, and a call that throws stopped in the row holding the crossed
\* variable, with no later row and no further pass.
C18_CrossingThrows ==
    [][ last'.op \in ExamineOps =>
          LET m == RowsPerPass(last'.op)
              rows == last'.rows
              crossed == { v \in DOMAIN lowerBounds' :
                             FloatGt(lowerBounds'[v], upperBounds'[v]) }
          IN  /\ last'.thrown <=> crossed # {}
              /\ \A i \in DOMAIN rows : rows[i] = ((i - 1) % m) + 1
              /\ ~last'.thrown => Len(rows) = Len(last'.passes) * m
              /\ last'.thrown =>
                    /\ Len(rows) > (Len(last'.passes) - 1) * m
                    /\ Len(rows) <= Len(last'.passes) * m
                    /\ crossed \subseteq VariablesOfRow(last'.op, rows[Len(rows)])
                    /\ ~consistentBounds' ]_vars

\* C18 witness (values scaled by 4): x, y, z in [0, 1] and the row
\* x + y + z = 4: the constraint-matrix pass has thrown in its only row.
C18_Witness ==
    /\ last.op = "examineConstraintMatrix"
    /\ _tableau = SumTableau(16)
    /\ last.thrown
    /\ last.rows = << 1 >>
    /\ \E v \in 0..2 : lowerBounds[v] > upperBounds[v]

C18_WitnessInverted ==
    /\ last.op \in {"examineInvertedBasisMatrix", "examineImplicitInvertedBasisMatrix"}
    /\ last.thrown

C18_WitnessPivotRow ==
    /\ last.op = "examinePivotRow"
    /\ last.thrown

\* a throw in the first row of a later pass of a matrix of two rows
C18_WitnessLaterPass ==
    /\ last.op \in Drivers
    /\ last.thrown
    /\ Len(last.passes) > 1
    /\ _tableau.m > 1
    /\ Len(last.rows) < Len(last.passes) * _tableau.m

\* C18 as stated: the call throws whenever it leaves a variable with lb > ub.
C18_Original ==
    [][ last'.op \in ExamineOps =>
          ( (\E v \in DOMAIN lowerBounds' : lowerBounds'[v] > upperBounds'[v])
                => last'.thrown ) ]_vars

\* a call that returned with bounds crossed by no more than the tolerance
C18_WitnessWithinTolerance ==
    /\ last.op \in ExamineOps
    /\ ~last.thrown
    /\ ~consistentBounds
    /\ \E v \in DOMAIN lowerBounds : lowerBounds[v] = upperBounds[v] + Epsilon

\* ------------------------------------------------------------------ C19
Finite(x) == x # NaN /\ ~IsInfinite(x)

\* The bounds of  scalar + sum ci xi  of a row of the inverted basis, from
\* the bounds of its right-hand-side variables alone.
LhsFormula(row) ==
    LET term(i, upper) ==
            LET c == row.row[i].coefficient
                x == row.row[i].var
            IN  IF c = 0 THEN 0
                ELSE FloatTimes(c, IF (c > 0) = upper THEN upperBounds[x]
                                                     ELSE lowerBounds[x])
    IN  [ lb |-> FloatAdd(row.scalar,
                     SumOver([i \in DOMAIN row.row |-> term(i, FALSE)], Len(row.row))),
          ub |-> FloatAdd(row.scalar,
                     SumOver([i \in DOMAIN row.row |-> term(i, TRUE)], Len(row.row))) ]

\* What tightenOnSingleInvertedBasisRow derives for the left-hand side of
\* the row, before rounding.
LhsProposal(row) ==
    InvertedRowLhsBounds(InvertedRowScratch(State, row), 1,
                         [lb |-> row.scalar, ub |-> row.scalar])

\* What it derives for the i-th right-hand-side variable, before rounding,
\* from the bounds of the state.
RhsProposalWith(row, i, lhsLb, lhsUb) ==
    LET Proposed(sc) ==
            InvertedEntryBounds(sc,
                InvertedRowAux(sc, 1,
                    [lb |-> FloatSub(lhsLb, row.scalar),
                     ub |-> FloatSub(lhsUb, row.scalar)]),
                row, i)
    IN  Proposed(InvertedRowScratch(State, row))

RhsProposal(row, i) ==
    RhsProposalWith(row, i, lowerBounds[row.lhs], upperBounds[row.lhs])

\* Some right-hand-side variable of the row is unbounded on the side that
\* the upper (lower) bound of the left-hand side is derived from.
UnboundedAbove(row) ==
    \E i \in DOMAIN row.row :
        \/ row.row[i].coefficient > 0 /\ upperBounds[row.row[i].var] = PosInf
        \/ row.row[i].coefficient < 0 /\ lowerBounds[row.row[i].var] = NegInf

UnboundedBelow(row) ==
    \E i \in DOMAIN row.row :
        \/ row.row[i].coefficient > 0 /\ lowerBounds[row.row[i].var] = NegInf
        \/ row.row[i].coefficient < 0 /\ upperBounds[row.row[i].var] = PosInf

C19_WitnessNothingForUnbounded ==
    /\ last.op = "examineConstraintMatrix"
    /\ _tableau = SumTableau(12)
    /\ upperBounds[0] = 4 /\ upperBounds[1] = 0
    /\ lowerBounds[2] = NegInf /\ upperBounds[2] = PosInf
    /\ Sum(last.passes) = 0

SmallConstraintRow(tableau, r) ==
    \A k \in DOMAIN tableau.A[r] :
        Abs(tableau.A[r][k].value) < MinimalCoefficientForTightening

SmallInvertedRow(row) ==
    \A i \in DOMAIN row.row :
        Abs(row.row[i].coefficient) < MinimalCoefficientForTightening

SameBounds(s, x) ==
    s.lowerBounds[x] = lowerBounds[x] /\ s.upperBounds[x] = upperBounds[x]

InvertedOps ==
    { "examineInvertedBasisMatrix", "examineImplicitInvertedBasisMatrix",
      "examinePivotRow" }

C20_WitnessInverted ==
    /\ last.op \in InvertedOps
    /\ _tableau = SmallInvertedRowTableau
    /\ Sum(last.passes) > 0
    /\ lowerBounds[2] # NegInf

AtThresholdVariables(op) ==
    IF op = "examineConstraintMatrix"
    THEN { _tableau.A[1][k].index : k \in
             { j \in DOMAIN _tableau.A[1] :
                 Abs(_tableau.A[1][j].value) = MinimalCoefficientForTightening } }
    ELSE { ExplicitRows(_tableau)[1].row[i].var : i \in
             { j \in DOMAIN ExplicitRows(_tableau)[1].row :
                 Abs(ExplicitRows(_tableau)[1].row[j].coefficient)
                     = MinimalCoefficientForTightening } }

\* C21: an entry whose coefficient is exactly at
\* MINIMAL_COEFFICIENT_FOR_TIGHTENING is skipped: a call over a one-row
\* tableau changes no bound of the variable of such an entry.
C21_AtThresholdSkipped ==
    [][ (last'.op \in ExamineOps /\ _tableau.m = 1) =>
            \A x \in AtThresholdVariables(last'.op) :
                /\ lowerBounds'[x] = lowerBounds[x]
                /\ upperBounds'[x] = upperBounds[x] ]_vars

\* 0.5 x0 + 0.5 x1 - x2 = 0 with x0, x1 in [0, 32] and x2 = 0: the pass over
\* the constraint matrix has given x0 the upper bound (0 - 0) / 0.5 = 0.
C21_Witness ==
    /\ last.op = "examineConstraintMatrix"
    /\ _tableau = ThresholdRowTableau
    /\ upperBounds[0] = 0
    /\ upperBounds[2] = 0
    /\ \E k \in DOMAIN tightenings : tightenings[k] = Tightening(0, 0, UB)

\* the same row in the inverted basis, x2 = 0.5 x0 + 0.5 x1: x0 has got the
\* upper bound 0 / 0.5 + rounding
C21_WitnessInverted ==
    /\ last.op \in InvertedOps
    /\ _tableau = ThresholdRowTableau
    /\ \E k \in DOMAIN tightenings :
          tightenings[k] = Tightening(0, RoundingConstant, UB)

\* ------------------------------------------------------------------ C22
\* The right-hand-side entries of a row of the inverted basis that are not
\* passed over.
RhsEntries(row) ==
    { i \in DOMAIN row.row :
        /\ row.row[i].coefficient # 0
        /\ ~SmallCoefficient(row.row[i].coefficient) }

OnePassOverOneRow(ops) ==
    /\ last'.op \in ops
    /\ ~last'.untilSaturation
    /\ ~last'.thrown
    /\ _tableau.m = 1

\* C22: a bound derived from a row of the inverted basis is registered
\* loosened by the rounding constant, the lower bound minus it and the upper
\* bound plus it, for the left-hand side y and for every right-hand-side
\* variable (whose bounds are derived from the bounds of y just registered);
\* a bound derived from a row of the constraint matrix is registered as
\* derived, with no rounding.
C22_Rounding ==
    [][ /\ OnePassOverOneRow(InvertedOps) =>
           LET row == ExplicitRows(_tableau)[1]
               y == row.lhs
           IN  /\ lowerBounds'[y] =
                     Accepted(FloatSub(LhsFormula(row).lb, RoundingConstant),
                              lowerBounds[y], LB)
               /\ upperBounds'[y] =
                     Accepted(FloatAdd(LhsFormula(row).ub, RoundingConstant),
                              upperBounds[y], UB)
               /\ \A i \in RhsEntries(row) :
                     LET x == row.row[i].var
                         proposal == RhsProposalWith(row, i, lowerBounds'[y],
                                                     upperBounds'[y])
                     IN  /\ lowerBounds'[x] =
                               Accepted(FloatSub(proposal.lb, RoundingConstant),
                                        lowerBounds[x], LB)
                         /\ upperBounds'[x] =
                               Accepted(FloatAdd(proposal.ub, RoundingConstant),
                                        upperBounds[x], UB)
        /\ OnePassOverOneRow({"examineConstraintMatrix"}) =>
              \A e \in RowEntries(_tableau) :
                  LET x == _tableau.A[e[1]][e[2]].index
                      proposal == RowProposal(_tableau, e[1], e[2])
                  IN  /\ lowerBounds'[x] = Accepted(proposal.lb, lowerBounds[x], LB)
                      /\ upperBounds'[x] = Accepted(proposal.ub, upperBounds[x], UB) ]_vars

\* C22 witness: x2 = 12 - x0 - x1 with x0, x1 in [0, 32] and x2 = 0: the row
\* of the inverted basis has given x0 and x1 the upper bound 12 + rounding.
C22_Witness ==
    /\ last.op = "examineInvertedBasisMatrix"
    /\ _tableau = SumTableau(12)
    /\ ~last.untilSaturation
    /\ upperBounds[0] = 12 + RoundingConstant
    /\ upperBounds[1] = 12 + RoundingConstant
    /\ upperBounds[2] = 0

\* x0 + x1 + x2 = 12 with x, y, z in [0, 4]: the row of the constraint matrix
\* has given each the lower bound 4, with no rounding
C22_WitnessConstraintMatrix ==
    /\ last.op = "examineConstraintMatrix"
    /\ _tableau = SumTableau(12)
    /\ ~last.untilSaturation
    /\ \A x \in 0..2 : lowerBounds[x] = 4 /\ upperBounds[x] = 4

\* C22 as stated: bounds derived from rows of the constraint matrix are
\* registered loosened by the rounding constant too.
C22_Original ==
    [][ OnePassOverOneRow({"examineConstraintMatrix"}) =>
          \A e \in RowEntries(_tableau) :
              LET x == _tableau.A[e[1]][e[2]].index
                  proposal == RowProposal(_tableau, e[1], e[2])
              IN  /\ lowerBounds'[x] =
                        Accepted(FloatSub(proposal.lb, RoundingConstant),
                                 lowerBounds[x], LB)
                  /\ upperBounds'[x] =
                        Accepted(FloatAdd(proposal.ub, RoundingConstant),
                                 upperBounds[x], UB) ]_vars

\* ------------------------------------------------------------------ C23
\* The bounds after the step are those of s.
BoundsBecome(s) ==
    /\ lowerBounds' = s.lowerBounds
    /\ upperBounds' = s.upperBounds

\* Row 1 and then row 2 of a two-row matrix, row 2 on what row 1 left.
ConstraintRowsInTurn ==
    LET AfterFirst(r1) ==
            IF r1.thrown THEN r1.s
            ELSE TightenOnSingleConstraintRow(r1.s, _tableau, 2).s
    IN  AfterFirst(TightenOnSingleConstraintRow(State, _tableau, 1))

InvertedRowsInTurn ==
    LET AfterFirst(r1) ==
            IF r1.thrown THEN r1.s
            ELSE TightenOnSingleInvertedBasisRow(r1.s, ExplicitRows(_tableau)[2]).s
    IN  AfterFirst(TightenOnSingleInvertedBasisRow(State, ExplicitRows(_tableau)[1]))

\* k passes of the driver op one after the other, each on what the one
\* before it left, up to the one that throws.
RECURSIVE PassesInTurn(_, _, _)
PassesInTurn(op, s, k) ==
    IF k = 0 THEN s
    ELSE LET AfterPass(r) == IF r.thrown THEN r.s ELSE PassesInTurn(op, r.s, k - 1)
         IN  AfterPass(IF op = "examineConstraintMatrix"
                       THEN OnePassOverConstraintMatrix(s, _tableau)
                       ELSE OnePassOverInvertedBasisRows(s, ExplicitRows(_tableau)))

\* The rows are taken in index order, pass after pass.
InIndexOrder(rows, m) ==
    /\ rows # << >> => rows[1] = 1
    /\ \A k \in 1..(Len(rows) - 1) :
          rows[k + 1] = IF rows[k] = m THEN 1 ELSE rows[k] + 1

\* C23: in a pass the rows are processed in index order, and a row reads the
\* bounds as the rows before it left them: one pass over a two-row matrix
\* leaves the bounds that row 2 derives from what row 1 left.  In a row of
\* the inverted basis the bounds of the right-hand-side variables are derived
\* from the bounds of y as just registered.  A pass starts from the bounds
\* the pass before it left.
C23_GaussSeidel ==
    [][ /\ last'.op \in Drivers => InIndexOrder(last'.rows, _tableau.m)
        /\ (last'.op = "examineConstraintMatrix" /\ ~last'.untilSaturation
                /\ _tableau.m = 2) => BoundsBecome(ConstraintRowsInTurn)
        /\ (last'.op \in Drivers \ {"examineConstraintMatrix"}
                /\ ~last'.untilSaturation /\ _tableau.m = 2)
              => BoundsBecome(InvertedRowsInTurn)
        /\ OnePassOverOneRow(InvertedOps) =>
              LET row == ExplicitRows(_tableau)[1]
              IN  \A i \in RhsEntries(row) :
                     LET x == row.row[i].var
                         fresh == RhsProposalWith(row, i, lowerBounds'[row.lhs],
                                                  upperBounds'[row.lhs])
                     IN  /\ lowerBounds'[x] >= lowerBounds[x]
                         /\ lowerBounds'[x] > lowerBounds[x] =>
                               lowerBounds'[x] = FloatSub(fresh.lb, RoundingConstant)
                         /\ upperBounds'[x] <= upperBounds[x]
                         /\ upperBounds'[x] < upperBounds[x] =>
                               upperBounds'[x] = FloatAdd(fresh.ub, RoundingConstant)
        /\ last'.op \in Drivers =>
              BoundsBecome(PassesInTurn(last'.op, State, Len(last'.passes))) ]_vars

\* C23 witness: x0 - x1 = 0 and x0 - x1 + x2 = 4 with x0 = 4 and x1, x2 in
\* [0, 4]: in one pass row 1 has raised x1 to 4 and row 2 has derived
\* x2 >= 4 from it, which the old bound of x1 does not give.
C23_Witness ==
    /\ last.op = "examineConstraintMatrix"
    /\ _tableau = NarrowingTableau
    /\ ~last.untilSaturation
    /\ last.previous = << >>
    /\ last.passes = << 2 >>
    /\ tightenings = << Tightening(1, 4, LB), Tightening(2, 4, LB) >>

\* the same for the rows of the inverted basis, x1 = x0 and x2 = x0 with
\* x0 in [0, 32], x1 = 0 and x2 free: row 1 has brought x0 down to
\* 0 + rounding and row 2 has derived x2 <= 0 + 2 * rounding from it
C23_WitnessInverted ==
    /\ last.op = "examineInvertedBasisMatrix"
    /\ _tableau = SharedTableau
    /\ ~last.untilSaturation
    /\ last.previous = << >>
    /\ last.passes = << 3 >>
    /\ upperBounds[0] = RoundingConstant
    /\ upperBounds[2] = 2 * RoundingConstant
    /\ lowerBounds[2] = 0 - RoundingConstant

\* a second pass has learned from the first
C23_WitnessNextPass ==
    /\ last.op \in Drivers
    /\ _tableau = ChainTableau
    /\ Len(last.passes) >= 2
    /\ last.passes[2] > 0

\* ------------------------------------------------------------------ C24
\* The step has done what the call r does: the bounds and the log it leaves,
\* whether it throws, and the passes it makes with what each learns.
SameCall(r) ==
    /\ BoundsBecome(r.s)
    /\ tightenings' = r.s.tightenings
    /\ consistentBounds' = r.s.consistentBounds
    /\ last'.thrown = r.thrown
    /\ last'.passes = r.passes
    /\ last'.rows = r.rows

C24_WitnessInfeasible ==
    /\ last.op = "examineImplicitInvertedBasisMatrix"
    /\ last.thrown
    /\ ~consistentBounds

\* ------------------------------------------------------------------ C25
ExplicitCalls ==
    { "examineInvertedBasisMatrix", "examineInvertedBasisMatrix (interrupted)" }

Positions(events, e) == { k \in DOMAIN events : events[k] = e }

\* C25: a call of examineInvertedBasisMatrix deletes the inverse it got from
\* the tableau exactly once, whether it returns or an exception
\* (InfeasibleQuery from a row, or another one while the rows are computed)
\* leaves it; with an exception the inverse is deleted before the exception
\* is thrown on to the caller; the inverse is not read after it is deleted.
C25_InverseReleasedOnce ==
    [][ last'.op \in ExplicitCalls =>
          LET events == last'.invB
              exception == last'.thrown
                               \/ last'.op = "examineInvertedBasisMatrix (interrupted)"
          IN  /\ events[1] = "get"
              /\ Cardinality(Positions(events, "delete")) = 1
              /\ \A d \in Positions(events, "delete") :
                    /\ \A r \in Positions(events, "read") : r < d
                    /\ d = Len(events) - 1
              /\ events[Len(events)] = IF exception THEN "throw" ELSE "return"
              /\ last'.thrown => ~consistentBounds' ]_vars

\* C25 witness: InfeasibleQuery has left a call of examineInvertedBasisMatrix
C25_Witness ==
    /\ last.op = "examineInvertedBasisMatrix"
    /\ last.thrown
    /\ ~consistentBounds
    /\ "delete" \in { last.invB[k] : k \in DOMAIN last.invB }

\* the call has returned
C25_WitnessReturn ==
    /\ last.op = "examineInvertedBasisMatrix"
    /\ ~last.thrown
    /\ last.invB[Len(last.invB)] = "return"

\* another exception has left the call
C25_WitnessInterrupted ==
    /\ last.op = "examineInvertedBasisMatrix (interrupted)"
    /\ last.invB[Len(last.invB)] = "throw"

\* ------------------------------------------------------------------ C26
ListMembers(list) == { list[k] : k \in DOMAIN list }

\* C26: on a non-empty list chooseViolatedConstraintForFixing returns a
\* member of the list: with least-fix the earliest of those whose violation
\* count is minimal over the list (a constraint never reported counting 0),
\* without it the first of the list; the call changes nothing.
C26_LeastFix ==
    [][ last'.op = "chooseViolatedConstraintForFixing" =>
          LET list == last'.violatedPlConstraints
              chosen == last'.ret
              least == { k \in DOMAIN list :
                           \A j \in DOMAIN list :
                               constraintToViolationCount[list[k]]
                                   <= constraintToViolationCount[list[j]] }
          IN  /\ chosen \in ListMembers(list)
              /\ last'.useLeastFix =>
                    chosen = list[CHOOSE k \in least : \A j \in least : k <= j]
              /\ ~last'.useLeastFix => chosen = list[1]
              /\ UNCHANGED << stack, impliedValidSplitsAtRoot, needToSplit,
                              constraintForSplitting, stateId,
                              constraintToViolationCount,
                              numRejectedPhasePatternProposal, context,
                              lowerBounds, upperBounds, active >> ]_vars

\* C26 witness: with least-fix the second of the list, reported less often
\* than the first, has been chosen
C26_Witness ==
    /\ last.op = "chooseViolatedConstraintForFixing"
    /\ last.useLeastFix
    /\ Len(last.violatedPlConstraints) >= 2
    /\ last.ret = last.violatedPlConstraints[2]
    /\ last.ret # last.violatedPlConstraints[1]
    /\ constraintToViolationCount[last.ret] = 0
    /\ constraintToViolationCount[last.violatedPlConstraints[1]] > 0

\* without least-fix the first has been chosen although the second was
\* reported less often
C26_WitnessFirst ==
    /\ last.op = "chooseViolatedConstraintForFixing"
    /\ ~last.useLeastFix
    /\ Len(last.violatedPlConstraints) >= 2
    /\ last.ret = last.violatedPlConstraints[1]
    /\ constraintToViolationCount[last.violatedPlConstraints[2]]
           < constraintToViolationCount[last.ret]

\* ------------------------------------------------------------------ C27
\* C27: reportViolatedConstraint(c) adds one to the violation count of c and
\* leaves the other counts; when the count of c has reached the threshold,
\* a split is needed and the candidate is the pick of the heuristic of the
\* engine, or c when it picks none; below the threshold needToSplit and
\* the candidate stay as they were.
C27_ReportViolated ==
    [][ last'.op = "reportViolatedConstraint" =>
          LET c == last'.constraint
          IN  /\ constraintToViolationCount'[c] = constraintToViolationCount[c] + 1
              /\ \A d \in Constraints \ {c} :
                    constraintToViolationCount'[d] = constraintToViolationCount[d]
              /\ IF constraintToViolationCount'[c] >= ConstraintViolationThreshold
                 THEN /\ needToSplit'
                      /\ constraintForSplitting' =
                            IF last'.pick # NULL THEN last'.pick ELSE c
                 ELSE /\ needToSplit' = needToSplit
                      /\ constraintForSplitting' = constraintForSplitting ]_vars

\* C27 witness: the report has reached the threshold and the heuristic has
\* picked another constraint than the reported one
C27_Witness ==
    /\ last.op = "reportViolatedConstraint"
    /\ constraintToViolationCount[last.constraint] = ConstraintViolationThreshold
    /\ needToSplit
    /\ last.pick # NULL
    /\ last.pick # last.constraint
    /\ constraintForSplitting = last.pick

\* the heuristic has picked none and the reported constraint is the candidate
C27_WitnessFallback ==
    /\ last.op = "reportViolatedConstraint"
    /\ constraintToViolationCount[last.constraint] = ConstraintViolationThreshold
    /\ needToSplit
    /\ last.pick = NULL
    /\ constraintForSplitting = last.constraint

\* the report is below the threshold
C27_WitnessBelow ==
    /\ last.op = "reportViolatedConstraint"
    /\ constraintToViolationCount[last.constraint] < ConstraintViolationThreshold
    /\ ~needToSplit
    /\ last.pick # NULL
    /\ constraintForSplitting = NULL

\* ------------------------------------------------------------------ C28
CallsNamed(log, f) == { k \in DOMAIN log : log[k].f = f }

C28_WitnessPick ==
    /\ last.op = "reportRejectedPhasePatternProposal"
    /\ needToSplit
    /\ last.valid # NULL
    /\ ~active[last.valid]
    /\ last.pick # NULL
    /\ constraintForSplitting = last.pick

\* below the threshold
C28_WitnessBelow ==
    /\ last.op = "reportRejectedPhasePatternProposal"
    /\ numRejectedPhasePatternProposal < DeepSoIRejectionThreshold
    /\ numRejectedPhasePatternProposal > 0
    /\ ~needToSplit
    /\ calls = << >>

\* performSplit has set a count that had reached the threshold back to zero
C28_WitnessReset ==
    /\ last.op = "performSplit"
    /\ numRejectedPhasePatternProposal = 0
    /\ stack # << >>
    /\ \A c \in Constraints : constraintToViolationCount[c] < ConstraintViolationThreshold

\* ------------------------------------------------------------------ C29
\* The constraint a frame was created for: the one its active case is a
\* case of.
ConstraintOf(stackEntry) ==
    CHOOSE c \in Constraints :
        \E k \in 1..Len(CaseSplitsOf(c)) : CaseSplitsOf(c)[k] = stackEntry.activeSplit

HasFrame(stk, c) == \E k \in DOMAIN stk : ConstraintOf(stk[k]) = c

\* The frames that the step has removed from the stack.
RemovedFrames == { k \in DOMAIN stack : k > Len(stack') }

\* C29: a constraint with a frame on the decision stack is inactive:
\* performSplit deactivates the constraint it creates a frame for, and the
\* constraint stays inactive while the frame is on the stack, through all
\* its cases.  When popSplit has removed frames and returns true, having
\* restored the snapshot of the frame it advances, the constraints of the
\* removed frames are active again.  (A constraint can be inactive without a
\* frame: popSplit that empties the stack and returns false, and reset,
\* restore nothing.)
C29_InactiveWhileOnStack ==
    [][ /\ \A k \in DOMAIN stack' : ~active'[ConstraintOf(stack'[k])]
        /\ (last'.op = "performSplit" /\ Len(stack') > Len(stack)) =>
              /\ active[constraintForSplitting]
              /\ ~active'[constraintForSplitting]
              /\ ConstraintOf(stack'[Len(stack')]) = constraintForSplitting
        /\ (last'.op = "popSplit" /\ last'.ret) =>
              /\ \A k \in RemovedFrames : active'[ConstraintOf(stack[k])]
              /\ active' = stack'[Len(stack')].engineState.active ]_vars

\* C29 witness: two constraints were split on, popSplit has removed the
\* frame of the second and advanced the frame of the first; the second is
\* active again and the first is not
C29_Witness ==
    /\ last.op = "popSplit"
    /\ last.ret
    /\ stateId = 2
    /\ Len(stack) = 1
    /\ \A c \in Constraints : active[c] = (c # ConstraintOf(stack[1]))

\* popSplit has emptied the stack and the constraints split on are still
\* inactive
C29_WitnessEmptied ==
    /\ last.op = "popSplit"
    /\ ~last.ret
    /\ stack = << >>
    /\ stateId = 2
    /\ \A c \in Constraints : ~active[c]
    /\ impliedValidSplitsAtRoot = << >>

\* C29 as stated: once backtracking has removed the frame of a constraint,
\* the constraint is active again.
C29_Original ==
    [][ last'.op = "popSplit" =>
          \A k \in RemovedFrames :
              ~HasFrame(stack', ConstraintOf(stack[k])) =>
                  active'[ConstraintOf(stack[k])] ]_vars

\* ------------------------------------------------------------------ C30
CurrentNode == unsatCertificate.nodes[unsatCertificate.current]

RECURSIVE Depth(_, _)
Depth(nodes, node) ==
    IF nodes[node].parent = NULL THEN 0 ELSE 1 + Depth(nodes, nodes[node].parent)

\* C30: with a proof produced and the root of the certificate there, after
\* performSplit has created a frame and after popSplit has returned true the
\* current node of the certificate is labelled with the active case of the
\* top frame.  performSplit adds under the node that was current one child
\* per case, in the order of the cases, and makes the child of the first
\* case current; popSplit adds no node and makes current the child labelled
\* with the chosen case, under the node the cases of the top frame were
\* added to.
C30_CertificateFollowsStack ==
    [][ /\ (last'.op = "performSplit" /\ Len(stack') > Len(stack)) =>
              LET splits == CaseSplitsOf(constraintForSplitting)
                  old == unsatCertificate.nodes
                  new == unsatCertificate'.nodes
              IN  /\ Len(new) = Len(old) + Len(splits)
                  /\ SubSeq(new, 1, Len(old)) = old
                  /\ \A k \in 1..Len(splits) :
                        new[Len(old) + k] =
                            [parent |-> unsatCertificate.current, split |-> splits[k]]
                  /\ unsatCertificate'.current = Len(old) + 1
                  /\ CurrentNode'.split = stack'[Len(stack')].activeSplit
        /\ (last'.op = "popSplit" /\ last'.ret) =>
              /\ unsatCertificate'.nodes = unsatCertificate.nodes
              /\ unsatCertificate'.current # NULL
              /\ CurrentNode'.split = stack'[Len(stack')].activeSplit
              /\ CurrentNode'.split # stack[Len(stack')].activeSplit
              /\ Depth(unsatCertificate'.nodes, unsatCertificate'.current) = Len(stack')
        /\ stack' # << >> =>
              /\ CurrentNode'.split = stack'[Len(stack')].activeSplit
              /\ Depth(unsatCertificate'.nodes, unsatCertificate'.current) = Len(stack') ]_vars

\* C30 witness: popSplit has removed the frame of the second constraint and
\* moved the frame of the first to its next case; the pointer is on the
\* child of the root labelled with that case
C30_Witness ==
    /\ last.op = "popSplit"
    /\ last.ret
    /\ stateId = 2
    /\ Len(stack) = 1
    /\ Len(unsatCertificate.nodes) = 6
    /\ CurrentNode.parent = 1
    /\ CurrentNode.split = stack[1].activeSplit

\* performSplit has created a second frame, its cases under the node of the
\* first
C30_WitnessSplit ==
    /\ last.op = "performSplit"
    /\ Len(stack) = 2
    /\ CurrentNode.parent # 1
    /\ CurrentNode.split = stack[2].activeSplit


\* ------------------------------------------------------------------ C31
\* the bound of a pair (variable, kind) in the working arrays
BoundOf(lower, upper, p) == IF p[2] = LB THEN lower[p[1]] ELSE upper[p[1]]

\* C31: the explanations are versioned with the context. A pop leaves every
\* explanation what it was at the matching push, so an explanation set after
\* that push is reverted; and once the bounds are restored, the explanation
\* of a bound that is back at a value whose explanation was trivial at the
\* push is trivial.
C31_ExplanationsVersioned ==
    [][ /\ (last'.op = "pop" /\ HasExplainer(State))
            => explanations' = popped'[1].at.explanations
        /\ (last'.op = "restoreLocalBounds" /\ HasExplainer(State))
            => \A p \in DOMAIN explanations :
                 ( /\ BoundOf(lowerBounds', upperBounds', p)
                        = BoundOf(popped[1].at.lower, popped[1].at.upper, p)
                   /\ popped[1].at.explanations[p] = Trivial )
                 => explanations'[p] = Trivial ]_vars

\* a pop has reverted an explanation that was set after the matching push,
\* while an explanation set before that push is kept
C31_Witness ==
    /\ last.op = "pop"
    /\ HasExplainer(State)
    /\ popped[1].at.explanations[<< 0, LB >>] = Trivial
    /\ popped[1].explanationsAtPop[<< 0, LB >>] # Trivial
    /\ explanations[<< 0, LB >>] = Trivial
    /\ explanations[<< 1, UB >>] # Trivial

\* ------------------------------------------------------------------ C32
\* every pair but the given one keeps its explanation in the step
OtherExplanationsUnchanged(variable, kind) ==
    \A p \in DOMAIN explanations' :
        p # << variable, kind >> => explanations'[p] = explanations[p]

\* C32: every explanation is trivial after initializeBoundExplainer, and a
\* trivial explanation stays trivial when a bound is set by setLowerBound or
\* setUpperBound; setExplanation makes the explanation of its pair
\* non-trivial and exactly the entries it was given, resetExplanation makes
\* it trivial again, and both leave the explanation of every other pair
\* unchanged.
C32_ExplanationLifecycle ==
    [][ /\ last'.op = "initializeBoundExplainer"
            => /\ DOMAIN explanations' = Vars \X {LB, UB}
               /\ \A p \in DOMAIN explanations' : explanations'[p] = Trivial
        /\ (last'.op \in {"setLowerBound", "setUpperBound"} /\ HasExplainer(State))
            => \A p \in DOMAIN explanations :
                 explanations[p] = Trivial => explanations'[p] = Trivial
        /\ last'.op = "setExplanation"
            => /\ explanations'[<< last'.variable, last'.kind >>] # Trivial
               /\ explanations'[<< last'.variable, last'.kind >>] = last'.explanation
               /\ OtherExplanationsUnchanged(last'.variable, last'.kind)
        /\ last'.op = "resetExplanation"
            => /\ explanations'[<< last'.variable, last'.kind >>] = Trivial
               /\ OtherExplanationsUnchanged(last'.variable, last'.kind) ]_vars

\* an explanation that had been set has been reset while the explanation of
\* another pair stays set, after a bound was tightened
C32_Witness ==
    /\ last.op = "resetExplanation"
    /\ last.variable = 0 /\ last.kind = LB
    /\ explanations[<< 0, LB >>] = Trivial
    /\ explanations[<< 1, UB >>] # Trivial
    /\ lowerBounds[0] = 1


\* ------------------------------------------------------------------ C33
\* the cases handed to applySplit in a call, in the order of the calls
AppliedSplits(log) ==
    LET applied == SelectSeq(log, LAMBDA c : c.f = "applySplit")
    IN  [k \in 1..Len(applied) |-> applied[k].split]

\* the alternatives of the frames above frame n, from the top down
RECURSIVE AlternativesAbove(_, _, _)
AlternativesAbove(stk, k, n) ==
    IF k <= n THEN << >>
    ELSE stk[k].alternativeSplits \o AlternativesAbove(stk, k - 1, n)

\* A step of the life of the frames.  performSplit appends a frame whose
\* active case is the first case and whose alternatives are the others in
\* order, and applies the first case only.  popSplit applies, from the top
\* frame down, every alternative of the frames it deletes, in order, and
\* the alternatives of the frame it keeps on top up to the one it leaves
\* active; that frame's alternatives lose exactly the cases applied, and
\* the frames below are untouched.  Every other operation leaves the
\* active case and the alternatives of every frame as they are, or deletes
\* the whole stack.
FrameLifecycleStep ==
    /\ (last'.op = "performSplit" /\ last'.ret) =>
          LET splits == CaseSplitsOf(constraintForSplitting)
          IN  /\ Len(stack') = Len(stack) + 1
              /\ SubSeq(stack', 1, Len(stack)) = stack
              /\ stack'[Len(stack')].activeSplit = splits[1]
              /\ stack'[Len(stack')].alternativeSplits = Tail(splits)
              /\ AppliedSplits(calls') = << splits[1] >>
    /\ (last'.op = "performSplit" /\ ~last'.ret) =>
          stack' = stack /\ AppliedSplits(calls') = << >>
    /\ last'.op = "popSplit" =>
          LET n == Len(stack')
              above == AlternativesAbove(stack, Len(stack), n)
          IN  /\ n <= Len(stack)
              /\ \A i \in 1..(n - 1) : stack'[i] = stack[i]
              /\ last'.ret = (n > 0)
              /\ IF n = 0 THEN AppliedSplits(calls') = above
                 ELSE LET alternatives == stack[n].alternativeSplits
                      IN  \E j \in 1..Len(alternatives) :
                            /\ AppliedSplits(calls') = above \o SubSeq(alternatives, 1, j)
                            /\ stack'[n].activeSplit = alternatives[j]
                            /\ stack'[n].alternativeSplits
                                 = SubSeq(alternatives, j + 1, Len(alternatives))
                            /\ stack'[n].engineState = stack[n].engineState
    /\ last'.op \notin {"performSplit", "popSplit"} =>
          \/ stack' = << >> /\ last'.op = "reset"
          \/ /\ Len(stack') = Len(stack)
             /\ \A i \in DOMAIN stack :
                   /\ stack'[i].activeSplit = stack[i].activeSplit
                   /\ stack'[i].alternativeSplits = stack[i].alternativeSplits
                   /\ stack'[i].engineState = stack[i].engineState

\* C33 (amended): over the life of a frame its cases become active in the
\* order of the split, each at most once and none skipped; the alternatives
\* of a frame change only by the removal of their head; a frame is deleted
\* only by a popSplit that finds its alternatives empty, or by reset, which
\* deletes every frame; and the cases popSplit applies are those of frames
\* then on the stack.
C33_FrameLifecycle ==
    [][ /\ FrameLifecycleStep
        /\ RemovedFrames # {} => last'.op \in {"popSplit", "reset"} ]_vars

\* C33 witness: popSplit has retried on a frame of three cases until its
\* last case became active
C33_Witness ==
    /\ last.op = "popSplit"
    /\ last.ret
    /\ Len(AppliedSplits(calls)) = 2
    /\ AppliedSplits(calls) = Tail(CaseSplitsOf(2))
    /\ stack[Len(stack)].activeSplit = CaseSplitsOf(2)[3]
    /\ stack[Len(stack)].alternativeSplits = << >>

\* C33 as stated: a frame is deleted only by a popSplit that finds its
\* alternatives empty.
C33_Original ==
    [][ /\ FrameLifecycleStep
        /\ RemovedFrames # {} => last'.op = "popSplit" ]_vars


\* ------------------------------------------------------------------ C34
\* the names of the calls of an operation, in order
CallNames(log) == [k \in DOMAIN log |-> log[k].f]

\* what popSplit does to the frame it advances, up to the applied case
PopSplitAdvance ==
    << "pop", "postContextPopHook", "restoreState", "impliedValidSplits.clear",
       "preContextPushHook", "push", "applySplit" >>

ConsistencyChecks == { "consistentBounds=true", "consistentBounds=false" }

\* C34: for the frame it advances popSplit pops the context, calls
\* postContextPopHook, restores the frame's snapshot, clears the frame's
\* implied splits, calls preContextPushHook, pushes the context, applies
\* the next case and only then asks whether the bounds are consistent.  The
\* snapshot is restored before the push and never after the case is
\* applied; the only other calls are the context pops of the exhausted
\* frames, one per frame removed, each before the advance that follows it.
C34_PopSplitOrder ==
    [][ last'.op = "popSplit" =>
          LET names == CallNames(calls')
              restores == { k \in DOMAIN names : names[k] = "restoreState" }
              InAdvance(k) == \E r \in restores : r - 2 <= k /\ k <= r + 5
          IN  /\ \A r \in restores :
                    /\ r >= 3 /\ r + 5 <= Len(names)
                    /\ SubSeq(names, r - 2, r + 4) = PopSplitAdvance
                    /\ names[r + 5] \in ConsistencyChecks
              /\ \A k \in DOMAIN names :
                    /\ names[k] = "applySplit" => (k - 4) \in restores
                    /\ ~InAdvance(k) => names[k] = "pop"
                    /\ names[k] = "consistentBounds=false" => k < Len(names)
              /\ Cardinality({ k \in DOMAIN names : ~InAdvance(k) })
                    = Len(stack) - Len(stack')
              /\ last'.ret =>
                    /\ names # << >>
                    /\ names[Len(names)] = "consistentBounds=true"
              /\ ~last'.ret =>
                    names = << >> \/ ~InAdvance(Len(names)) ]_vars

\* C34 witness: popSplit has removed an exhausted frame and then advanced
\* the frame below it
C34_Witness ==
    /\ last.op = "popSplit"
    /\ last.ret
    /\ CallNames(calls) = << "pop" >> \o PopSplitAdvance \o << "consistentBounds=true" >>

\* ------------------------------------------------------------------ C35
\* what performSplit asks for when it creates a frame
PerformSplitOrder ==
    << "setActiveConstraint(false)", "storeState(STORE_BOUNDS_ONLY)",
       "preContextPushHook", "push", "applySplit" >>

\* C35: performSplit marks the candidate inactive before it stores the
\* state, stores the state (bounds only) before preContextPushHook, the
\* context push and the first case, in that order; the snapshot of the new
\* frame records the constraint as inactive and holds the bounds from
\* before the first case.
C35_PerformSplitOrder ==
    [][ (last'.op = "performSplit" /\ last'.ret) =>
          LET engineState == stack'[Len(stack')].engineState
              c == constraintForSplitting
          IN  /\ CallNames(calls') = PerformSplitOrder
              /\ calls'[5].split = CaseSplitsOf(c)[1]
              /\ engineState.level = "STORE_BOUNDS_ONLY"
              /\ ~engineState.active[c]
              /\ \A d \in Constraints \ {c} : engineState.active[d] = active[d]
              /\ engineState.lower = lowerBounds
              /\ engineState.upper = upperBounds ]_vars

\* C35 witness: performSplit has created a frame whose first case moved a
\* bound, and the snapshot holds the bound from before
C35_Witness ==
    /\ last.op = "performSplit"
    /\ last.ret
    /\ CallNames(calls) = PerformSplitOrder
    /\ \E v \in Vars :
          \/ stack[Len(stack)].engineState.lower[v] # lowerBounds[v]
          \/ stack[Len(stack)].engineState.upper[v] # upperBounds[v]


\* ------------------------------------------------------------------ C36
SolutionStored == DOMAIN _debuggingSolution # {}

\* the split has a bound that the stored solution does not satisfy
Contradicts(split) ==
    \E k \in DOMAIN split :
        /\ split[k].variable \in DOMAIN _debuggingSolution
        /\ \/ split[k].type = LB
              /\ FloatGt(split[k].value, _debuggingSolution[split[k].variable])
           \/ split[k].type = UB
              /\ FloatLt(split[k].value, _debuggingSolution[split[k].variable])

SomeContradicts(splits) == \E i \in DOMAIN splits : Contradicts(splits[i])

\* root implied splits, every frame's active case and implied splits agree
\* with the stored solution
StackCompliant(root, stk) ==
    /\ ~SomeContradicts(root)
    /\ \A k \in DOMAIN stk :
          ~Contradicts(stk[k].activeSplit) /\ ~SomeContradicts(stk[k].impliedValidSplits)

\* the check stops, without an error, at a frame whose active case
\* contradicts the solution while the frame has alternatives
StopsAt(stk, k) == Contradicts(stk[k].activeSplit) /\ stk[k].alternativeSplits # << >>

ReachedByCheck(stk, k) == \A j \in 1..(k - 1) : ~StopsAt(stk, j)

\* an implied split, or an active case of a frame without alternatives,
\* contradicts the solution, anywhere
ContradictionAnywhere(root, stk) ==
    \/ SomeContradicts(root)
    \/ \E k \in DOMAIN stk :
          \/ Contradicts(stk[k].activeSplit) /\ stk[k].alternativeSplits = << >>
          \/ SomeContradicts(stk[k].impliedValidSplits)

\* the same, in a frame the check reaches and does not stop at
ContradictionReached(root, stk) ==
    \/ SomeContradicts(root)
    \/ \E k \in DOMAIN stk :
          /\ ReachedByCheck(stk, k)
          /\ \/ Contradicts(stk[k].activeSplit) /\ stk[k].alternativeSplits = << >>
             \/ ~Contradicts(stk[k].activeSplit)
                /\ SomeContradicts(stk[k].impliedValidSplits)

\* C36 (amended): the debugging error is raised only when a solution is
\* stored, and only by popSplit and recordImpliedValidSplit.  With one
\* stored, popSplit on a non-empty stack that is wholly compliant raises it
\* before it removes or advances a frame.  The compliance check after
\* recordImpliedValidSplit goes over the root implied splits and then the
\* frames from the oldest, and ends without an error at the first frame
\* whose active case contradicts the solution while alternatives remain; it
\* raises the error exactly when a root implied split, or the active case
\* of a frame without alternatives or an implied split of a frame that it
\* reaches, contradicts the solution.
C36_DebuggingError ==
    [][ /\ error' # NoError =>
              /\ error' = DEBUGGING_ERROR
              /\ SolutionStored
              /\ last'.op \in {"popSplit", "recordImpliedValidSplit"}
        /\ ( /\ last'.op = "popSplit"
             /\ SolutionStored
             /\ stack # << >>
             /\ StackCompliant(impliedValidSplitsAtRoot, stack) ) =>
              /\ error' = DEBUGGING_ERROR
              /\ stack' = stack
              /\ context' = context
              /\ calls' = << >>
        /\ (last'.op = "recordImpliedValidSplit" /\ SolutionStored) =>
              (error' = DEBUGGING_ERROR
                 <=> ContradictionReached(impliedValidSplitsAtRoot', stack')) ]_vars

\* C36 witness: with a solution stored, popSplit has raised the error on a
\* compliant stack of two frames and left it as it was
C36_Witness ==
    /\ last.op = "popSplit"
    /\ error = DEBUGGING_ERROR
    /\ Len(stack) = 2
    /\ StackCompliant(impliedValidSplitsAtRoot, stack)
    /\ calls = << >>

\* an implied split that contradicts the solution was recorded above a
\* frame at which the check stops, and no error was raised
C36_WitnessStopped ==
    /\ last.op = "recordImpliedValidSplit"
    /\ error = NoError
    /\ SolutionStored
    /\ ContradictionAnywhere(impliedValidSplitsAtRoot, stack)

\* C36 as stated: with a solution stored popSplit raises the error when the
\* whole stack is compliant, and the compliance check raises it when an
\* implied split, or an active case of a frame without alternatives,
\* contradicts the solution.
C36_Original ==
    [][ /\ error' # NoError => SolutionStored
        /\ ( /\ last'.op = "popSplit"
             /\ SolutionStored
             /\ StackCompliant(impliedValidSplitsAtRoot, stack) ) =>
              error' = DEBUGGING_ERROR /\ stack' = stack
        /\ ( /\ last'.op = "recordImpliedValidSplit"
             /\ SolutionStored
             /\ ContradictionAnywhere(impliedValidSplitsAtRoot', stack') ) =>
              error' = DEBUGGING_ERROR ]_vars


\* ------------------------------------------------------------------ C37
\* what allSplitsSoFar returns for a root list and a stack
SplitsSoFar(root, stk) == root \o StackSplits(stk)

\* the stored frames have all been replayed
ReplayComplete == last'.op = "replaySmtStackEntry" /\ Len(stack') = Len(smtState.stack)

\* replaySmtStackEntry stores the entire tableau state as the snapshot of
\* the entry, applies the active case and then the implied splits of the
\* entry in their order, and appends the entry as the top frame: the depth
\* grows by one and no context level is pushed.
ReplayStep ==
    last'.op = "replaySmtStackEntry" =>
        LET stackEntry == smtState.stack[Len(stack) + 1]
            top == stack'[Len(stack')]
        IN  /\ Len(stack') = Len(stack) + 1
            /\ SubSeq(stack', 1, Len(stack)) = stack
            /\ top.activeSplit = stackEntry.activeSplit
            /\ top.impliedValidSplits = stackEntry.impliedValidSplits
            /\ top.alternativeSplits = stackEntry.alternativeSplits
            /\ top.engineState.level = "STORE_ENTIRE_TABLEAU_STATE"
            /\ top.engineState.stateId = stateId
            /\ top.engineState.lower = lowerBounds
            /\ top.engineState.upper = upperBounds
            /\ calls'[1].f = "storeState(STORE_ENTIRE_TABLEAU_STATE)"
            /\ \A k \in 2..Len(calls') : calls'[k].f = "applySplit"
            /\ AppliedSplits(calls')
                 = << stackEntry.activeSplit >> \o stackEntry.impliedValidSplits
            /\ context' = context

\* storeSmtState copies the root implied splits and, frame by frame, the
\* active case, the implied splits and the alternatives
StoreStep ==
    last'.op = "storeSmtState" =>
        /\ SplitsSoFar(smtState'.impliedValidSplitsAtRoot, smtState'.stack)
             = SplitsSoFar(impliedValidSplitsAtRoot, stack)
        /\ Len(smtState'.stack) = Len(stack)
        /\ \A k \in DOMAIN stack :
              smtState'.stack[k].alternativeSplits = stack[k].alternativeSplits

\* C37 (amended): replaySmtStackEntry behaves as above, and replaying the
\* frames of a stored state in order on a fresh core makes allSplitsSoFar()
\* the stored core's sequence without its root implied splits: it is the
\* same sequence when the stored core had no root implied splits.
C37_Replay ==
    [][ /\ ReplayStep
        /\ StoreStep
        /\ ReplayComplete =>
              /\ SplitsSoFar(impliedValidSplitsAtRoot', stack') = StackSplits(smtState.stack)
              /\ smtState.impliedValidSplitsAtRoot = << >> =>
                    SplitsSoFar(impliedValidSplitsAtRoot', stack')
                      = SplitsSoFar(smtState.impliedValidSplitsAtRoot, smtState.stack) ]_vars

\* C37 witness: two stored frames, one of them with an implied split, have
\* been replayed on a fresh core, and no context level was pushed
C37_Witness ==
    /\ last.op = "replaySmtStackEntry"
    /\ Len(stack) = 2
    /\ Len(smtState.stack) = 2
    /\ \E k \in DOMAIN stack : stack[k].impliedValidSplits # << >>
    /\ context = << >>
    /\ smtState.impliedValidSplitsAtRoot = << >>

\* C37 as stated: the replay reproduces the allSplitsSoFar() of the stored
\* core.
C37_Original ==
    [][ /\ ReplayStep
        /\ StoreStep
        /\ ReplayComplete =>
              SplitsSoFar(impliedValidSplitsAtRoot', stack')
                = SplitsSoFar(smtState.impliedValidSplitsAtRoot, smtState.stack) ]_vars


\* ------------------------------------------------------------------ C38
\* C38: whenever needToSplit() is true a candidate for splitting is set,
\* also when the heuristic declines to pick and the score tracker has no
\* unfixed constraint.
C38_CandidateWhenNeeded == needToSplit => constraintForSplitting # NULL

\* the rejection threshold was reached, the heuristic declined and the
\* score tracker had no unfixed constraint
C38_Witness ==
    /\ last.op = "reportRejectedPhasePatternProposal"
    /\ last.pick = NULL
    /\ last.top = NULL
    /\ needToSplit
    /\ numRejectedPhasePatternProposal >= DeepSoIRejectionThreshold


\* ------------------------------------------------------------------ C39
\* the alternatives left on the stack
RECURSIVE RemainingAlternatives(_)
RemainingAlternatives(stk) ==
    IF stk = << >> THEN 0
    ELSE Len(Head(stk).alternativeSplits) + RemainingAlternatives(Tail(stk))

\* what popSplit can still do to the stack: delete a frame or consume an
\* alternative
Work(stk) == Len(stk) + RemainingAlternatives(stk)

\* C39: a popSplit on a non-empty stack does at least one thing, and each
\* thing it does deletes a frame or consumes an alternative: the frames
\* deleted and the cases applied add up to the decrease of the frames and
\* alternatives on the stack, so it applies at most as many cases as there
\* are alternatives left, however often the engine answers inconsistent.
\* In a search that only calls popSplit the frames and alternatives left
\* therefore decrease with every call until the stack is empty, and the
\* call that empties it, and every call after, returns false.
C39_PopSplitTerminates ==
    [][ /\ (last'.op = "popSplit" /\ Pending) =>
              LET applications == Len(AppliedSplits(calls'))
                  deleted == Len(stack) - Len(stack')
              IN  /\ applications <= RemainingAlternatives(stack)
                  /\ Work(stack) - Work(stack') = applications + deleted
                  /\ stack # << >> => Work(stack') < Work(stack)
                  /\ last'.ret => applications >= 1
                  /\ last'.ret = (stack' # << >>)
        /\ Backtracking => Work(stack') <= Work(stack) ]_vars

\* C39 witness: one popSplit has applied every alternative left on a stack
\* of two frames, the engine answering inconsistent to all but the last
C39_Witness ==
    /\ last.op = "popSplit"
    /\ last.ret
    /\ stateId = 2
    /\ Len(stack) = 1
    /\ Len(AppliedSplits(calls)) = 3
    /\ Cardinality(CallsNamed(calls, "consistentBounds=false")) = 2
    /\ RemainingAlternatives(stack) = 0


\* ------------------------------------------------------------------ C40
\* C40: in performSplit and popSplit every context push comes directly
\* after a preContextPushHook, and every context pop of popSplit, also one
\* that removes an exhausted frame or empties the stack, is followed by a
\* postContextPopHook before any engine state is restored and before
\* popSplit returns.
C40_HooksBracket ==
    [][ last'.op \in {"performSplit", "popSplit"} =>
          LET names == CallNames(calls')
          IN  \A k \in DOMAIN names :
                /\ names[k] = "push" =>
                      k > 1 /\ names[k - 1] = "preContextPushHook"
                /\ names[k] = "pop" =>
                      \E j \in (k + 1)..Len(names) :
                          /\ names[j] = "postContextPopHook"
                          /\ \A i \in (k + 1)..(j - 1) : names[i] # "restoreState" ]_vars

\* popSplit has removed the last frame and returned false: the context was
\* popped, no hook was called, and the bounds of the engine are not the
\* bounds the context holds
C40_Witness ==
    /\ last.op = "popSplit"
    /\ ~last.ret
    /\ calls # << >>
    /\ calls[Len(calls)].f = "pop"
    /\ CallsNamed(calls, "postContextPopHook") = {}
    /\ context = << >>
    /\ lowerBounds # storedLower \/ upperBounds # storedUpper

====
